---- MODULE Spec2Model ----
(***************************************************************************)
(* Model of the Telegram CPM recommendation bot (src/main.py): the         *)
(* provider waterfall of ChannelAnalyzer.analyze_channel, the secondary    *)
(* provider blend TelegramHarvester.get_stats, the normalizers, the        *)
(* eligibility rules and the CPM pricing engine.                           *)
(*                                                                         *)
(* Representation.                                                         *)
(*   - A Python str is a sequence of one-character strings.                *)
(*   - A Python dict is a function whose DOMAIN is the set of keys present.*)
(*   - A JSON value whose type the code tests is a tagged record:          *)
(*       [k |-> "num", n |-> i], [k |-> "str", s |-> chars], [k |-> "null"]*)
(*   - None is the record Null; a raised exception is the record Raised.   *)
(*   - Times are seconds on one clock; a float that is a ratio of two      *)
(*     integers (posts per day) is the record [n |-> num, d |-> den];      *)
(*     engagement_rate is in hundredths of a percent (the code rounds it   *)
(*     to two decimals); quality scores and media ratios are in hundredths;*)
(*     prices are exact rationals rounded to cents at the point where the  *)
(*     code rounds.                                                        *)
(***************************************************************************)
EXTENDS Integers, Sequences, FiniteSets, TLC

----------------------------------------------------------------------------
(* Bounds of the model (not program constants) *)

\* cache ages run over 0 .. MaxAgeHours hours, each with 0 or 1 extra second
MaxAgeHours == 7

\* interaction counters (reactions, forwards) of harvester rows run over 0 .. MaxInteractions
MaxInteractions == 1

\* days since the last post run up to MaxIdleDays
MaxIdleDays == 15

----------------------------------------------------------------------------
(* Python values *)

Null == [k |-> "null"]

Raised == [k |-> "raised"]

Num(i) == [k |-> "num", n |-> i]

Str(s) == [k |-> "str", s |-> s]

Has(d, key) == key \in DOMAIN d

\* dict.get(key, default)
Get(d, key, default) == IF key \in DOMAIN d THEN d[key] ELSE default

\* the empty dict
EmptyDict == [x \in {} |-> Null]

\* dict.update: keys of b override keys of a
Update(a, b) == [x \in (DOMAIN a) \cup (DOMAIN b) |-> IF x \in DOMAIN b THEN b[x] ELSE a[x]]

Max(a, b) == IF a >= b THEN a ELSE b

Min(a, b) == IF a <= b THEN a ELSE b

\* n/d rounded to the nearest integer (d # 0), halves upwards
RoundDiv(n, d) ==
  LET num == IF d < 0 THEN -n ELSE n
      den == IF d < 0 THEN -d ELSE d
  IN  (2 * num + den) \div (2 * den)

----------------------------------------------------------------------------
(* Python str operations, on sequences of characters *)

UpperCase == <<"A","B","C","D","E","F","G","H","I","J","K","L","M",
               "N","O","P","Q","R","S","T","U","V","W","X","Y","Z">>

LowerCase == <<"a","b","c","d","e","f","g","h","i","j","k","l","m",
               "n","o","p","q","r","s","t","u","v","w","x","y","z">>

LowerChar(c) ==
  IF \E i \in 1..26 : UpperCase[i] = c
  THEN LowerCase[CHOOSE i \in 1..26 : UpperCase[i] = c]
  ELSE c

\* str.lower()
Lower(s) == [i \in 1..Len(s) |-> LowerChar(s[i])]

\* kw in text
Contains(text, kw) ==
  \E i \in 1..(Len(text) - Len(kw) + 1) : SubSeq(text, i, i + Len(kw) - 1) = kw

\* str.replace(c, ''), for a single character c
RECURSIVE Remove(_, _)
Remove(s, c) ==
  IF s = <<>> THEN <<>>
  ELSE IF Head(s) = c THEN Remove(Tail(s), c)
  ELSE <<Head(s)>> \o Remove(Tail(s), c)

\* str.lstrip(c), for a single character c
RECURSIVE LStrip(_, _)
LStrip(s, c) ==
  IF s # <<>> /\ Head(s) = c THEN LStrip(Tail(s), c) ELSE s

WhiteSpace == {" "}

\* str.strip() (whitespace)
RECURSIVE Strip(_)
Strip(s) ==
  IF s = <<>> THEN <<>>
  ELSE IF Head(s) \in WhiteSpace THEN Strip(Tail(s))
  ELSE IF s[Len(s)] \in WhiteSpace THEN Strip(SubSeq(s, 1, Len(s) - 1))
  ELSE s

Digits == <<"0","1","2","3","4","5","6","7","8","9">>

IsDigit(c) == \E i \in 1..10 : Digits[i] = c

DigitVal(c) == (CHOOSE i \in 1..10 : Digits[i] = c) - 1

RECURSIVE DigitsVal(_)
DigitsVal(s) ==
  IF s = <<>> THEN 0 ELSE 10 * DigitsVal(SubSeq(s, 1, Len(s) - 1)) + DigitVal(s[Len(s)])

\* int(s) / float(s) on a string of the model's alphabet (digits, a leading
\* sign, anything else): [ok |-> TRUE, v |-> value], or ok = FALSE for ValueError
ParseNumber(s) ==
  LET t    == Strip(s)
      neg  == t # <<>> /\ Head(t) = "-"
      body == IF neg THEN Tail(t) ELSE t
  IN  IF body # <<>> /\ \A i \in 1..Len(body) : IsDigit(body[i])
      THEN [ok |-> TRUE, v |-> IF neg THEN -DigitsVal(body) ELSE DigitsVal(body)]
      ELSE [ok |-> FALSE, v |-> 0]

----------------------------------------------------------------------------
(* Niche classification *)

\* ChannelAnalyzer._classify_niche: the keyword table, in declaration order
NicheKeywords ==
   <<
       <<"crypto", <<<<"c","r","y","p","t","o">>,
          <<"b","i","t","c","o","i","n">>,
          <<"b","l","o","c","k","c","h","a","i","n">>,
          <<"d","e","f","i">>,
          <<"n","f","t">>,
          <<"t","r","a","d","i","n","g">>,
          <<"a","l","t","c","o","i","n">>>> >>,
       <<"tech", <<<<"t","e","c","h">>,
          <<"t","e","c","h","n","o","l","o","g","y">>,
          <<"p","r","o","g","r","a","m","m","i","n","g">>,
          <<"a","i">>,
          <<"s","o","f","t","w","a","r","e">>,
          <<"d","e","v","e","l","o","p","e","r">>>> >>,
       <<"business", <<<<"b","u","s","i","n","e","s","s">>,
          <<"e","n","t","r","e","p","r","e","n","e","u","r">>,
          <<"s","t","a","r","t","u","p">>,
          <<"m","a","r","k","e","t","i","n","g">>,
          <<"s","a","l","e","s">>>> >>,
       <<"finance", <<<<"f","i","n","a","n","c","e">>,
          <<"i","n","v","e","s","t","m","e","n","t">>,
          <<"s","t","o","c","k">>,
          <<"f","o","r","e","x">>,
          <<"m","o","n","e","y">>>> >>,
       <<"news", <<<<"n","e","w","s">>,
          <<"b","r","e","a","k","i","n","g">>,
          <<"d","a","i","l","y">>,
          <<"u","p","d","a","t","e">>,
          <<"c","u","r","r","e","n","t">>>> >>,
       <<"gaming", <<<<"g","a","m","i","n","g">>,
          <<"g","a","m","e">>,
          <<"e","s","p","o","r","t","s">>,
          <<"g","a","m","e","r">>>> >>,
       <<"education", <<<<"e","d","u","c","a","t","i","o","n">>,
          <<"l","e","a","r","n","i","n","g">>,
          <<"c","o","u","r","s","e">>,
          <<"t","u","t","o","r","i","a","l">>>> >>,
       <<"entertainment", <<<<"e","n","t","e","r","t","a","i","n","m","e","n","t">>,
          <<"f","u","n">>,
          <<"m","e","m","e">>,
          <<"f","u","n","n","y">>>> >>
   >>

\* TGStatAnalyzer._classify_niche_tgstat: its own keyword table
NicheKeywordsTGStat ==
   <<
       <<"crypto", <<<<"c","r","y","p","t","o">>,
          <<"b","i","t","c","o","i","n">>,
          <<"b","l","o","c","k","c","h","a","i","n">>,
          <<"d","e","f","i">>,
          <<"n","f","t">>,
          <<"t","r","a","d","i","n","g">>,
          <<"b","t","c">>,
          <<"e","t","h">>>> >>,
       <<"tech", <<<<"t","e","c","h">>,
          <<"t","e","c","h","n","o","l","o","g","y">>,
          <<"p","r","o","g","r","a","m","m","i","n","g">>,
          <<"a","i">>,
          <<"s","o","f","t","w","a","r","e">>>> >>,
       <<"business", <<<<"b","u","s","i","n","e","s","s">>,
          <<"e","n","t","r","e","p","r","e","n","e","u","r">>,
          <<"s","t","a","r","t","u","p">>,
          <<"m","a","r","k","e","t","i","n","g">>>> >>,
       <<"finance", <<<<"f","i","n","a","n","c","e">>,
          <<"i","n","v","e","s","t","m","e","n","t">>,
          <<"s","t","o","c","k">>,
          <<"f","o","r","e","x">>,
          <<"m","o","n","e","y">>>> >>,
       <<"news", <<<<"n","e","w","s">>,
          <<"b","r","e","a","k","i","n","g">>,
          <<"d","a","i","l","y">>,
          <<"u","p","d","a","t","e">>>> >>,
       <<"gaming", <<<<"g","a","m","i","n","g">>,
          <<"g","a","m","e">>,
          <<"e","s","p","o","r","t","s">>,
          <<"g","a","m","e","r">>>> >>,
       <<"education", <<<<"e","d","u","c","a","t","i","o","n">>,
          <<"l","e","a","r","n","i","n","g">>,
          <<"c","o","u","r","s","e">>,
          <<"t","u","t","o","r","i","a","l">>>> >>,
       <<"entertainment", <<<<"e","n","t","e","r","t","a","i","n","m","e","n","t">>,
          <<"f","u","n">>,
          <<"m","e","m","e">>,
          <<"f","u","n","n","y">>>> >>
   >>

\* mutant of FirstMatch: the loop does not return at the first match, the last
\* matching category wins
FirstMatch_last_wins(table, text, i) ==
  LET hits == { k \in i..Len(table) :
                  \E j \in 1..Len(table[k][2]) : Contains(text, table[k][2][j]) }
  IN  IF hits = {} THEN "entertainment"
      ELSE table[CHOOSE k \in hits : \A h \in hits : h <= k][1]

\* for niche, niche_keywords in keywords.items(): if any(keyword in text ...): return niche
RECURSIVE FirstMatch(_, _, _)
FirstMatch(table, text, i) ==
  IF i > Len(table) THEN "entertainment"
  ELSE IF \E j \in 1..Len(table[i][2]) : Contains(text, table[i][2][j])
       THEN table[i][1]
       ELSE FirstMatch(table, text, i + 1)

classify_niche(title, description) ==
  FirstMatch(NicheKeywords, Lower(title \o <<" ">> \o description), 1)

classify_niche_tgstat(title, description) ==
  FirstMatch(NicheKeywordsTGStat, Lower(title \o <<" ">> \o description), 1)

----------------------------------------------------------------------------
(* Canonical record and normalizers *)

\* timedelta(days=1), in seconds
DAY == 86400

\* the rational n/d of a float that the code computes as a quotient
Ratio(n, d) == [n |-> n, d |-> d]

\* int(x) of a non-negative or negative ratio: truncation towards zero
IntOfRatio(r) == IF r.n >= 0 THEN r.n \div r.d ELSE -((-r.n) \div r.d)

\* r >= a/b, for d, b > 0
RatioGE(r, a, b) == r.n * b >= a * r.d

ChannelMetrics(username, title, subscribers, is_public, is_verified, description, recent_posts, avg_views, engagement_rate, last_post_date, niche, has_profile_photo, content_quality_score, total_forwards, total_reactions, media_ratio, posts_per_day) ==
  [username |-> username, title |-> title, subscribers |-> subscribers,
   is_public |-> is_public, is_verified |-> is_verified, description |-> description,
   recent_posts |-> recent_posts, avg_views |-> avg_views,
   engagement_rate |-> engagement_rate, last_post_date |-> last_post_date,
   niche |-> niche, has_profile_photo |-> has_profile_photo,
   content_quality_score |-> content_quality_score,
   total_forwards |-> total_forwards, total_reactions |-> total_reactions,
   media_ratio |-> media_ratio, posts_per_day |-> posts_per_day]

subscriber_fields ==
  <<"participants_count", "subscribers_count", "member_count",
    "subscribers", "members", "participants", "count", "subs",
    "participantsCount", "subscribersCount", "memberCount">>

\* ChannelAnalyzer._extract_subscribers, from candidate field i on
RECURSIVE ExtractFrom(_, _)
ExtractFrom(data, i) ==
  IF i > Len(subscriber_fields)
  THEN IF Has(data, "stats") /\ data["stats"].k = "dict"
       THEN ExtractFrom(data["stats"].d, 1)
       ELSE 0
  ELSE LET field == subscriber_fields[i] IN
       IF ~Has(data, field) THEN ExtractFrom(data, i + 1)
       ELSE LET value == data[field] IN
            IF value.k = "num" THEN value.n
            ELSE IF value.k = "str"
                 THEN LET p == ParseNumber(Remove(Remove(Remove(value.s, ","), " "), "."))
                      IN  IF p.ok THEN p.v ELSE ExtractFrom(data, i + 1)
                 ELSE ExtractFrom(data, i + 1)

extract_subscribers(data) == ExtractFrom(data, 1)

date_fields == <<"last_post", "lastPost", "last_activity", "updated_at">>

\* ChannelAnalyzer._parse_last_post_date; a value [k |-> "date", t |-> t] is a
\* string one of the three formats parses to the time t
RECURSIVE ParseDateFrom(_, _, _)
ParseDateFrom(data, now, i) ==
  IF i > Len(date_fields) THEN now - DAY
  ELSE IF Has(data, date_fields[i]) /\ data[date_fields[i]].k = "date"
       THEN data[date_fields[i]].t
       ELSE ParseDateFrom(data, now, i + 1)

parse_last_post_date(data, now) == ParseDateFrom(data, now, 1)

\* the engagement bonus of the Telemetr.io and harvester scorers:
\* engagement_rate = avg_views / subscribers * 100, for subscribers > 0
EngagementBonus(avg_views, subscribers) ==
  IF avg_views * 100 > 30 * subscribers THEN 30
  ELSE IF avg_views * 100 > 15 * subscribers THEN 20
  ELSE 0

\* ChannelAnalyzer._assess_telemetrio_quality raises TypeError in its division
\* when the raw avg_views is no number
telemetrio_quality_raises(data) ==
  extract_subscribers(data) > 0 /\ Get(data, "avg_views", Num(0)).k # "num"

\* mutant of assess_telemetrio_quality: the final min(score, 1.0) is missing
assess_telemetrio_quality_unclamped(data) ==
  LET avg_views    == Get(data, "avg_views", Num(0))
      subscribers  == extract_subscribers(data)
      recent_posts == Get(data, "posts_last_week", 0)
      description  == Get(data, "description", <<>>)
      s1 == 50 + (IF subscribers > 0 THEN EngagementBonus(avg_views.n, subscribers) ELSE 0)
      s2 == s1 + (IF recent_posts >= 7 THEN 20 ELSE IF recent_posts >= 3 THEN 10 ELSE 0)
      s3 == s2 + (IF Get(data, "verified", FALSE) THEN 20 ELSE 0)
  IN  s3 + (IF Len(description) > 50 THEN 10 ELSE 0)

\* ChannelAnalyzer._assess_telemetrio_quality, in hundredths
assess_telemetrio_quality(data) ==
  LET avg_views    == Get(data, "avg_views", Num(0))
      subscribers  == extract_subscribers(data)
      recent_posts == Get(data, "posts_last_week", 0)
      description  == Get(data, "description", <<>>)
      s1 == 50 + (IF subscribers > 0 THEN EngagementBonus(avg_views.n, subscribers) ELSE 0)
      s2 == s1 + (IF recent_posts >= 7 THEN 20 ELSE IF recent_posts >= 3 THEN 10 ELSE 0)
      s3 == s2 + (IF Get(data, "verified", FALSE) THEN 20 ELSE 0)
      s4 == s3 + (IF Len(description) > 50 THEN 10 ELSE 0)
  IN  Min(s4, 100)

\* ChannelAnalyzer._process_telemetrio_data; Raised when the code raises
process_telemetrio_data(username, data, now) ==
  LET title       == Get(data, "title", Get(data, "name", username))
      subscribers == extract_subscribers(data)
      raw         == Get(data, "avg_views", Get(data, "avgViews", Num(0)))
      parsed      == IF raw.k = "str"
                     THEN ParseNumber(Remove(Remove(raw.s, ","), " "))
                     ELSE [ok |-> raw.k = "num", v |-> IF raw.k = "num" THEN raw.n ELSE 0]
      avg_views   == parsed.v
      engagement_rate ==
        IF subscribers > 0 /\ avg_views > 0
        THEN RoundDiv(avg_views * 10000, subscribers) ELSE 0
      is_verified == Get(data, "verified", Get(data, "is_verified", FALSE))
      description == Get(data, "description", Get(data, "about", <<>>))
      recent_posts == Get(data, "posts_last_week", Get(data, "recent_posts", 0))
  IN  IF ~parsed.ok \/ telemetrio_quality_raises(data) THEN Raised
      ELSE ChannelMetrics(username, title, subscribers, TRUE, is_verified, description,
                          recent_posts, avg_views, engagement_rate,
                          parse_last_post_date(data, now),
                          classify_niche(title, description),
                          Get(data, "has_photo", TRUE),
                          assess_telemetrio_quality(data),
                          0, 0, 0, Ratio(0, 1))

\* ChannelAnalyzer._assess_harvester_quality, in hundredths
assess_harvester_quality(data) ==
  LET subs      == Get(data, "subs", 0)
      avg_views == Get(data, "avg_views", 0)
      ppd       == Get(data, "posts_per_day", Ratio(0, 1))
      s1 == 50 + (IF subs > 0 /\ avg_views > 0 THEN EngagementBonus(avg_views, subs) ELSE 0)
      s2 == s1 + (IF RatioGE(ppd, 1, 1) THEN 20 ELSE IF RatioGE(ppd, 1, 2) THEN 10 ELSE 0)
      s3 == s2 + (IF Get(data, "media_ratio", 0) > 50 THEN 10 ELSE 0)
      s4 == s3 + (IF Get(data, "total_reactions", 0) > 0 \/ Get(data, "total_forwards", 0) > 0
                  THEN 10 ELSE 0)
      s5 == s4 + (IF Get(data, "is_verified", FALSE) THEN 20 ELSE 0)
  IN  Min(s5, 100)

\* 'a or b' on strings
OrStr(a, b) == IF a # <<>> THEN a ELSE b

Unknown == <<"U","n","k","n","o","w","n">>

\* ChannelAnalyzer._process_harvester_data
process_harvester_data(data, now) ==
  LET subs      == Get(data, "subs", 0)
      avg_views == Get(data, "avg_views", 0)
      engagement_rate ==
        IF subs # 0 /\ avg_views # 0 THEN RoundDiv(avg_views * 10000, subs) ELSE 0
      title == OrStr(Get(data, "title", <<>>),
                 OrStr(Get(data, "username", <<>>),
                    OrStr(Get(data, "handle", <<>>), Unknown)))
      description == Get(data, "description", <<>>)
      ppd == Get(data, "posts_per_day", Ratio(0, 1))
  IN  ChannelMetrics(Get(data, "username", Get(data, "handle", <<>>)),
                     title, subs, TRUE, Get(data, "is_verified", FALSE), description,
                     IntOfRatio(ppd), avg_views, engagement_rate, now - DAY,
                     classify_niche(title, description), TRUE,
                     assess_harvester_quality(data),
                     Get(data, "total_forwards", 0), Get(data, "total_reactions", 0),
                     Get(data, "media_ratio", 0), ppd)

\* TGStatAnalyzer._assess_tgstat_quality, in hundredths; engagement_rate is
\* the unrounded quotient, subscribers a number
assess_tgstat_quality(data, subscribers, engagement_rate, now) ==
  LET e  == engagement_rate
      s1 == 50 + (IF e.n > 20 * e.d THEN 30
                  ELSE IF e.n > 10 * e.d THEN 20
                  ELSE IF e.n > 5 * e.d THEN 10 ELSE 0)
      s2 == s1 + (IF subscribers > 50000 THEN 15
                  ELSE IF subscribers > 10000 THEN 10
                  ELSE IF subscribers > 1000 THEN 5 ELSE 0)
      s3 == s2 + (IF Len(Get(data, "description", <<>>)) > 50 THEN 10 ELSE 0)
      s4 == s3 + (IF Get(data, "verified", FALSE) THEN 15 ELSE 0)
      s5 == s4 + (IF Has(data, "createdAt") /\ data["createdAt"].k = "date"
                     /\ (now - data["createdAt"].t) \div DAY > 365
                  THEN 10 ELSE 0)
  IN  Min(s5, 100)

\* mutant of tgstat_defaults: the defaults of the primary normalizer
tgstat_defaults_as_primary ==
  [is_public |-> TRUE, has_profile_photo |-> TRUE,
   total_forwards |-> 0, total_reactions |-> 0, media_ratio |-> 0]

\* the fields process_tgstat_data sets to fixed values
tgstat_defaults ==
  [is_public |-> TRUE, has_profile_photo |-> TRUE,
   total_forwards |-> 0, total_reactions |-> 0, media_ratio |-> 50]

\* TGStatAnalyzer.process_tgstat_data; Null when the code's try block raises
process_tgstat_data(username, data, now) ==
  LET title       == Get(data, "title", username)
      description == Get(data, "description", <<>>)
      subsRaw     == Get(data, "participantsCount", Num(0))
      subscribers == subsRaw.n
      hasReach    == Has(data, "avgPostReach")
      reach       == Get(data, "avgPostReach", Num(0))
      \* avg_views / subscribers raises unless avg_views is a number
      divides     == hasReach /\ subscribers > 0
      parsed      == IF reach.k = "str" THEN ParseNumber(reach.s)
                     ELSE [ok |-> reach.k = "num", v |-> IF reach.k = "num" THEN reach.n ELSE 0]
      avg_views   == parsed.v
      engagement_rate ==
        IF divides THEN Ratio(avg_views * 100, subscribers) ELSE Ratio(0, 1)
      posts_per_day ==
        IF Has(data, "postsCount") /\ Has(data, "createdAt")
        THEN IF data["createdAt"].k = "date"
             THEN LET days_active == (now - data["createdAt"].t) \div DAY
                  IN  IF days_active > 0 THEN Ratio(data["postsCount"], days_active)
                      ELSE Ratio(0, 1)
             ELSE Ratio(1, 2)
        ELSE Ratio(0, 1)
      last_post_date ==
        IF Has(data, "lastPostDate") /\ data["lastPostDate"].k = "date"
        THEN data["lastPostDate"].t ELSE now - DAY
  IN  IF subsRaw.k # "num" \/ (divides /\ reach.k # "num") \/ ~parsed.ok THEN Null
      ELSE ChannelMetrics(username, title, subscribers, tgstat_defaults.is_public,
                          Get(data, "verified", FALSE), description,
                          Max(IntOfRatio(Ratio(posts_per_day.n * 7, posts_per_day.d)), 1),
                          avg_views,
                          RoundDiv(engagement_rate.n * 100, engagement_rate.d),
                          last_post_date,
                          classify_niche_tgstat(title, description),
                          tgstat_defaults.has_profile_photo,
                          assess_tgstat_quality(data, subscribers, engagement_rate, now),
                          tgstat_defaults.total_forwards, tgstat_defaults.total_reactions,
                          tgstat_defaults.media_ratio, posts_per_day)

----------------------------------------------------------------------------
(* Provider calls.  An HTTP response is [exc, status, json]: exc says that   *)
(* requests.get raised (timeout, connection error), json is the decoded body *)

\* 'if d:' on an Optional[Dict]
Truthy(d) == d # Null /\ DOMAIN d # {}

\* ChannelAnalyzer._get_telemetrio_data: the two endpoints' responses combined
get_telemetrio_data(api_key, info, stats) ==
  LET part(r) == IF ~r.exc /\ r.status = 200 THEN r.json ELSE EmptyDict
      combined_data == Update(part(info), part(stats))
  IN  IF ~api_key THEN Null
      ELSE IF DOMAIN combined_data # {} THEN combined_data ELSE Null

\* TGStatAnalyzer.get_channel_data
get_channel_data(r) ==
  IF r.exc THEN Null
  ELSE IF r.status = 200
       THEN IF Get(r.json, "ok", FALSE) THEN Get(r.json, "result", EmptyDict) ELSE Null
       ELSE Null

\* TelegramHarvester._get_bot_api_info
get_bot_api_info(bot_token, handle, r) ==
  IF ~bot_token THEN Null
  ELSE IF r.exc THEN Null
  ELSE IF r.status = 200 /\ Get(r.json, "ok", FALSE) /\ Has(r.json, "result")
       THEN LET chat == r.json["result"] IN
            [title |-> Get(chat, "title", <<>>),
             description |-> Get(chat, "description", <<>>),
             is_verified |-> Get(chat, "is_verified", FALSE),
             username |-> Get(chat, "username", handle)]
       ELSE Null

\* TelegramHarvester.REFRESH_CACHE, in seconds
REFRESH_CACHE == 21600

\* mutant of needs_refresh: the live data is asked for whatever the cache holds
needs_refresh_always(cached, now) == TRUE

\* get_stats asks the harvester module for live data
needs_refresh(cached, now) ==
  cached = Null \/ now - Get(cached, "updated", 0) > REFRESH_CACHE

\* harvester_data of get_stats: refresh is what harvester.get_stats did
\* (Raised, Null or a record); it is asked only when needs_refresh
live_data(cached, now, refresh) ==
  IF needs_refresh(cached, now) /\ refresh # Raised THEN refresh ELSE Null

\* mutant of analytics_data: no fallback to the cached row
analytics_data_live_only(cached, now, refresh) == live_data(cached, now, refresh)

\* 'harvester_data if harvester_data else cached'
analytics_data(cached, now, refresh) ==
  IF Truthy(live_data(cached, now, refresh)) THEN live_data(cached, now, refresh) ELSE cached

\* mutant of merge_bot_api: the description falls back like the title does
merge_bot_api_keep_description(handle, analytics, bot_api_data) ==
  IF bot_api_data # Null
  THEN Update(analytics,
              [is_verified  |-> bot_api_data.is_verified,
               description  |-> OrStr(bot_api_data.description,
                                      Get(analytics, "description", <<>>)),
               title        |-> OrStr(bot_api_data.title, Get(analytics, "title", handle)),
               data_sources |-> "harvester+bot_api"])
  ELSE analytics

\* Step 4 of get_stats: the Bot API lookup merged over the analytics record
merge_bot_api(handle, analytics, bot_api_data) ==
  IF bot_api_data # Null
  THEN Update(analytics,
              [is_verified  |-> bot_api_data.is_verified,
               description  |-> bot_api_data.description,
               title        |-> OrStr(bot_api_data.title, Get(analytics, "title", handle)),
               data_sources |-> "harvester+bot_api"])
  ELSE analytics

\* TelegramHarvester.get_stats: cached is load_from_cache's row (or Null),
\* bot_api_data is _get_bot_api_info's result
get_stats(handle, cached, now, refresh, bot_api_data) ==
  IF ~Truthy(analytics_data(cached, now, refresh)) THEN Null
  ELSE Update(merge_bot_api(handle, analytics_data(cached, now, refresh), bot_api_data),
              [fresh |-> live_data(cached, now, refresh) # Null])

----------------------------------------------------------------------------
(* The coordinator's decisions *)

\* analyze_channel: the three gaps of the primary record
needs_desc(metrics) == metrics.description = <<>> \/ Strip(metrics.description) = <<>>

needs_posts(metrics) == metrics.posts_per_day.n = 0

needs_inter(metrics) ==
  metrics.total_reactions = 0 /\ metrics.total_forwards = 0 /\ metrics.media_ratio = 0

\* mutant of wants_supplement: only the description gap is looked at
wants_supplement_desc_only(harvester, metrics) == harvester /\ needs_desc(metrics)

\* 'if needs_desc or needs_posts or needs_inter', under 'if self.harvester'
wants_supplement(harvester, metrics) ==
  harvester /\ (needs_desc(metrics) \/ needs_posts(metrics) \/ needs_inter(metrics))

\* mutant of harvester_hit: the secondary payload is never taken
harvester_hit_never(harvester_data) == FALSE

\* 'if harvester_data:' of Step 2: the secondary provider's payload is used
harvester_hit(harvester_data) == Truthy(harvester_data)

\* mutant of tgstat_hit: the normalizer runs on whatever came back
tgstat_hit_always(tgstat_data) == TRUE

\* 'if tgstat_data:' of Step 3
tgstat_hit(tgstat_data) == Truthy(tgstat_data)

\* mutant of merge_harvester: the description is overwritten, gap or not
merge_harvester_overwrite(metrics, harv) ==
  IF ~Truthy(harv) THEN metrics
  ELSE [metrics EXCEPT !.description = Get(harv, "description", <<>>),
                       !.posts_per_day = Get(harv, "posts_per_day", Ratio(0, 1)),
                       !.total_reactions = Get(harv, "total_reactions", 0),
                       !.total_forwards  = Get(harv, "total_forwards", 0),
                       !.media_ratio     = Get(harv, "media_ratio", 0),
                       !.is_verified     = Get(harv, "is_verified", metrics.is_verified)]

\* the field-level merge of analyze_channel, 'if harv:' and its body
merge_harvester(metrics, harv) ==
  IF ~Truthy(harv) THEN metrics
  ELSE LET m1 == IF needs_desc(metrics) /\ Get(harv, "description", <<>>) # <<>>
                 THEN [metrics EXCEPT !.description = harv["description"]]
                 ELSE metrics
           m2 == IF needs_posts(metrics) /\ Has(harv, "posts_per_day")
                 THEN [m1 EXCEPT !.posts_per_day = harv["posts_per_day"]]
                 ELSE m1
           m3 == IF needs_inter(metrics)
                 THEN [m2 EXCEPT !.total_reactions = Get(harv, "total_reactions", 0),
                                 !.total_forwards  = Get(harv, "total_forwards", 0),
                                 !.media_ratio     = Get(harv, "media_ratio", 0)]
                 ELSE m2
       IN  IF Has(harv, "is_verified")
           THEN [m3 EXCEPT !.is_verified = harv["is_verified"]]
           ELSE m3

----------------------------------------------------------------------------
(* Eligibility *)

\* Config.MIN_SUBSCRIBERS's default
MIN_SUBSCRIBERS == 1000

\* Config.ACTIVITY_DAYS's default
ACTIVITY_DAYS == 14

\* (now - last_post).days
days_since(now_, last_post) == (now_ - last_post) \div DAY

\* mutant of hard_requirements: elif instead of if, the first failure ends the checks
hard_requirements_short_circuit(metrics, now_) ==
  IF ~metrics.is_public
  THEN [eligible |-> FALSE, reasons |-> <<"Channel must be public">>]
  ELSE IF metrics.subscribers < MIN_SUBSCRIBERS
  THEN [eligible |-> FALSE, reasons |-> <<"Needs MIN_SUBSCRIBERS+ subscribers">>]
  ELSE IF days_since(now_, metrics.last_post_date) > ACTIVITY_DAYS
  THEN [eligible |-> FALSE, reasons |-> <<"No activity in last ACTIVITY_DAYS days">>]
  ELSE [eligible |-> TRUE, reasons |-> <<>>]

\* check_eligibility: the three hard requirements, each checked in turn
hard_requirements(metrics, now_) ==
  LET r1 == IF ~metrics.is_public THEN <<"Channel must be public">> ELSE <<>>
      r2 == IF metrics.subscribers < MIN_SUBSCRIBERS
            THEN Append(r1, "Needs MIN_SUBSCRIBERS+ subscribers") ELSE r1
      r3 == IF days_since(now_, metrics.last_post_date) > ACTIVITY_DAYS
            THEN Append(r2, "No activity in last ACTIVITY_DAYS days") ELSE r2
  IN  [eligible |-> r3 = <<>>, reasons |-> r3]

\* mutant of soft_warnings: the low-engagement warning costs 0.1 like the others
soft_warnings_flat(metrics) ==
  LET w1 == IF ~metrics.has_profile_photo THEN <<"Missing profile photo">> ELSE <<>>
      w2 == IF metrics.description = <<>>
            THEN Append(w1, "Missing channel description") ELSE w1
      w3 == IF metrics.engagement_rate < 1000
            THEN Append(w2, "Low engagement rate (<10%)") ELSE w2
      w4 == IF metrics.content_quality_score < 30
            THEN Append(w3, "Low content quality score") ELSE w3
  IN  [warnings |-> w4, confidence |-> 100 - 10 * Len(w4)]

\* check_eligibility: the four soft warnings; confidence in hundredths
soft_warnings(metrics) ==
  LET w1 == IF ~metrics.has_profile_photo THEN <<"Missing profile photo">> ELSE <<>>
      c1 == IF ~metrics.has_profile_photo THEN 100 - 10 ELSE 100
      w2 == IF metrics.description = <<>>
            THEN Append(w1, "Missing channel description") ELSE w1
      c2 == IF metrics.description = <<>> THEN c1 - 10 ELSE c1
      w3 == IF metrics.engagement_rate < 1000
            THEN Append(w2, "Low engagement rate (<10%)") ELSE w2
      c3 == IF metrics.engagement_rate < 1000 THEN c2 - 20 ELSE c2
      w4 == IF metrics.content_quality_score < 30
            THEN Append(w3, "Low content quality score") ELSE w3
      c4 == IF metrics.content_quality_score < 30 THEN c3 - 10 ELSE c3
  IN  [warnings |-> w4, confidence |-> c4]

\* EligibilityChecker.check_eligibility
check_eligibility(metrics, now_) ==
  LET hard == hard_requirements(metrics, now_)
      soft == soft_warnings(metrics)
  IN  [eligible   |-> hard.eligible,
       reasons    |-> IF hard.eligible
                      THEN Append(hard.reasons, "Meets basic Telegram ads requirements")
                      ELSE hard.reasons,
       warnings   |-> soft.warnings,
       confidence |-> Max(soft.confidence, 0)]

----------------------------------------------------------------------------
(* Pricing.  A price is the exact rational w + r/d cents, 0 <= r < d *)

Cents(c) == [w |-> c, r |-> 0, d |-> 1]

RECURSIVE GCD(_, _)
GCD(a, b) == IF b = 0 THEN a ELSE GCD(b, a % b)

\* m * a / b, exactly, for a >= 0 and b > 0
MulFrac(m, a, b) ==
  LET t   == a * m.w
      num == (t % b) * m.d + a * m.r
      den == b * m.d
      rr  == num % den
      g   == GCD(den, rr)
  IN  [w |-> t \div b + num \div den, r |-> rr \div g, d |-> den \div g]

\* a >= b on prices
PriceGE(a, b) == a.w > b.w \/ (a.w = b.w /\ a.r * b.d >= b.r * a.d)

\* max(price, minimum)
FloorAt(m, minimum) == IF PriceGE(m, minimum) THEN m ELSE minimum

\* round(price, 2), in cents (halves upwards)
RoundCents(m) == m.w + (IF 2 * m.r >= m.d THEN 1 ELSE 0)

\* CPMCalculator.subscriber_tiers, prices in cents
subscriber_tiers == << <<1000, 15>>, <<10000, 25>>, <<50000, 45>>, <<100000, 75>> >>

\* CPMCalculator._get_base_cpm, in cents: the tiers walked from the highest down
RECURSIVE BaseFrom(_, _)
BaseFrom(subscribers, i) ==
  IF i < 1 THEN subscriber_tiers[1][2]
  ELSE IF subscribers >= subscriber_tiers[i][1] THEN subscriber_tiers[i][2]
  ELSE BaseFrom(subscribers, i - 1)

\* mutant of get_base_cpm: no tier is returned below the lowest threshold
get_base_cpm_no_floor(subscribers) ==
  IF subscribers < subscriber_tiers[1][1] THEN 0
  ELSE BaseFrom(subscribers, Len(subscriber_tiers))

get_base_cpm(subscribers) == BaseFrom(subscribers, Len(subscriber_tiers))

\* CPMCalculator.niche_multipliers, in tenths; 1.0 for a niche not in the table
niche_multiplier(niche) ==
  CASE niche = "crypto"        -> 14
    [] niche = "finance"       -> 13
    [] niche = "tech"          -> 12
    [] niche = "business"      -> 11
    [] niche = "gaming"        -> 10
    [] niche = "education"     -> 9
    [] niche = "news"          -> 8
    [] niche = "entertainment" -> 7
    [] niche = "lifestyle"     -> 8
    [] OTHER                   -> 10

\* CPMCalculator._get_engagement_multiplier, in hundredths
get_engagement_multiplier(engagement_rate) ==
  IF engagement_rate >= 5000 THEN 130
  ELSE IF engagement_rate >= 3000 THEN 115
  ELSE IF engagement_rate >= 2000 THEN 100
  ELSE IF engagement_rate >= 1000 THEN 90
  ELSE 80

\* CPMCalculator._get_interaction_multiplier, in hundredths
get_interaction_multiplier(metrics) ==
  IF metrics.total_reactions = 0 /\ metrics.total_forwards = 0 THEN 100
  ELSE LET total_interactions == metrics.total_reactions + metrics.total_forwards
           per_100 == metrics.avg_views * 100
       IN  IF metrics.avg_views > 0
           THEN IF total_interactions > 10 * per_100 THEN 120
                ELSE IF total_interactions > 5 * per_100 THEN 110
                ELSE IF total_interactions < per_100 THEN 95
                ELSE 100
           ELSE 100

\* CPMCalculator._get_frequency_multiplier, in hundredths
get_frequency_multiplier(posts_per_day) ==
  IF posts_per_day.n = 0 THEN 100
  ELSE IF RatioGE(posts_per_day, 2, 1) THEN 110
  ELSE IF RatioGE(posts_per_day, 1, 1) THEN 105
  ELSE IF RatioGE(posts_per_day, 1, 2) THEN 100
  ELSE 95

\* mutant of raw_competitive: the frequency multiplier is left out of the product
raw_competitive_no_frequency(metrics) ==
  LET m0 == Cents(get_base_cpm(metrics.subscribers))
      m1 == MulFrac(m0, niche_multiplier(metrics.niche), 10)
      m2 == MulFrac(m1, get_engagement_multiplier(metrics.engagement_rate), 100)
      m3 == MulFrac(m2, 200 + metrics.content_quality_score, 250)
      m4 == MulFrac(m3, IF metrics.is_verified THEN 11 ELSE 10, 10)
  IN  MulFrac(m4, get_interaction_multiplier(metrics), 100)

\* base_cpm * final_multiplier of calculate_cpm; the quality multiplier
\* 0.8 + score * 0.4 is (200 + score) / 250 with the score in hundredths
raw_competitive(metrics) ==
  LET m0 == Cents(get_base_cpm(metrics.subscribers))
      m1 == MulFrac(m0, niche_multiplier(metrics.niche), 10)
      m2 == MulFrac(m1, get_engagement_multiplier(metrics.engagement_rate), 100)
      m3 == MulFrac(m2, 200 + metrics.content_quality_score, 250)
      m4 == MulFrac(m3, IF metrics.is_verified THEN 11 ELSE 10, 10)
      m5 == MulFrac(m4, get_interaction_multiplier(metrics), 100)
  IN  MulFrac(m5, get_frequency_multiplier(metrics.posts_per_day), 100)

\* mutant of price_points: the competitive price is not floored
price_points_competitive_unfloored(competitive_cpm, minimum) ==
  [conservative |-> FloorAt(MulFrac(competitive_cpm, 8, 10), minimum),
   competitive  |-> competitive_cpm,
   aggressive   |-> FloorAt(MulFrac(competitive_cpm, 13, 10), minimum)]

\* the three price points of calculate_cpm, before rounding
price_points(competitive_cpm, minimum) ==
  LET conservative == FloorAt(MulFrac(competitive_cpm, 8, 10), minimum)
      competitive  == FloorAt(competitive_cpm, minimum)
      aggressive   == FloorAt(MulFrac(competitive, 13, 10), minimum)
  IN  [conservative |-> conservative, competitive |-> competitive,
       aggressive |-> aggressive]

\* CPMCalculator._generate_reasoning: the factors listed, in order
generate_reasoning(metrics) ==
  LET f1 == <<"Base">>
      f2 == IF metrics.engagement_rate >= 3000 THEN Append(f1, "High engagement")
            ELSE IF metrics.engagement_rate < 2000 THEN Append(f1, "Low engagement")
            ELSE f1
      f3 == IF niche_multiplier(metrics.niche) > 10 THEN Append(f2, "niche premium")
            ELSE IF niche_multiplier(metrics.niche) < 10 THEN Append(f2, "niche discount")
            ELSE f2
      f4 == IF RatioGE(metrics.posts_per_day, 1, 1) THEN Append(f3, "High activity") ELSE f3
      f5 == IF metrics.total_reactions > 0 \/ metrics.total_forwards > 0
            THEN Append(f4, "Good interaction metrics") ELSE f4
      f6 == IF metrics.content_quality_score > 70 THEN Append(f5, "High content quality")
            ELSE IF metrics.content_quality_score < 40
                 THEN Append(f5, "Content quality concerns")
            ELSE f5
  IN  IF metrics.is_verified THEN Append(f6, "Verified channel (+10%)") ELSE f6

\* CPMCalculator._assess_market_position
assess_market_position(metrics) ==
  IF metrics.engagement_rate >= 4000 /\ metrics.subscribers >= 50000
  THEN "Premium channel - high competition expected"
  ELSE IF metrics.engagement_rate >= 2500 /\ metrics.subscribers >= 10000
  THEN "Strong performer - competitive market"
  ELSE IF metrics.engagement_rate >= 1500
  THEN "Average performer - moderate competition"
  ELSE "Below average - easier entry but lower ROI"

\* CPMCalculator.calculate_cpm; prices in cents, success_probability in 1/10000
calculate_cpm(metrics, elig, minimum) ==
  LET points == price_points(raw_competitive(metrics), minimum)
  IN  [conservative |-> RoundCents(points.conservative),
       competitive  |-> RoundCents(points.competitive),
       aggressive   |-> RoundCents(points.aggressive),
       reasoning    |-> generate_reasoning(metrics),
       market_position |-> assess_market_position(metrics),
       success_probability |-> IF elig.eligible THEN elig.confidence * 70 ELSE 1000]

----------------------------------------------------------------------------
(* Inputs of the model: what the outside world hands to the program *)

\* the clock of the request, in seconds
Clock0 == 86400000

Chars(n, c) == [i \in 1..n |-> c]

\* a description of more than 50 characters, mentioning a keyword
LongText == <<"c","r","y","p","t","o">> \o Chars(50, "x")

RawUsernames == { <<"@","C","h">>, <<"c","h">> }

Response(exc, status, json) == [exc |-> exc, status |-> status, json |-> json]

FailedResponses ==
  { Response(TRUE, 0, EmptyDict), Response(FALSE, 404, EmptyDict),
    Response(FALSE, 500, EmptyDict) }

\* bodies of Telemetr.io's channel/info endpoint
InfoBodies ==
  { EmptyDict,
    [title |-> <<"A","I">>, description |-> LongText, verified |-> TRUE,
     subscribers |-> Num(20000)],
    [name |-> <<"f","u","n">>, about |-> <<" ">>, is_verified |-> FALSE,
     subs |-> Str(<<"1",",","5","0","0">>), has_photo |-> FALSE],
    [title |-> <<"d","a","i","l","y">>, description |-> <<>>, members |-> Null,
     stats |-> [k |-> "dict", d |-> [subscribers |-> Num(500)]]],
    [title |-> <<"b","t","c">>, subscribers_count |-> Num(-5)] }

\* bodies of Telemetr.io's channel/stats endpoint
StatsBodies ==
  { EmptyDict,
    [avg_views |-> Num(6000), posts_last_week |-> 7, engagement_rate |-> 9999,
     last_post |-> [k |-> "date", t |-> Clock0 - 20 * DAY]],
    [avg_views |-> Num(-500)],
    [avgViews |-> Str(<<"3","0","0">>), recent_posts |-> 3],
    [avg_views |-> Str(<<"3","0","0">>)],
    [avg_views |-> Str(<<"n","/","a">>)],
    [avg_views |-> Null] }

InfoResponses == FailedResponses \cup { Response(FALSE, 200, b) : b \in InfoBodies }

StatsResponses == FailedResponses \cup { Response(FALSE, 200, b) : b \in StatsBodies }

\* ages of a cached row, in seconds: around the freshness window
CacheAges == { h * 3600 + sec : h \in {0} \cup (5..MaxAgeHours), sec \in {0, 1} }

\* the columns of channel_stats
HarvesterRows(handle, updated) ==
  { [handle |-> handle, title |-> <<"C","r","y","p","t","o">>, description |-> <<>>,
     subs |-> 20000, avg_views |-> 6000, posts_per_day |-> Ratio(3, 2),
     total_forwards |-> 0, total_reactions |-> i, media_ratio |-> 60,
     is_verified |-> FALSE, updated |-> updated] : i \in 0..MaxInteractions }
  \cup
  { [handle |-> handle, title |-> <<>>, description |-> <<"f","u","n">>,
     subs |-> 0, avg_views |-> 0, posts_per_day |-> Ratio(0, 1),
     total_forwards |-> i, total_reactions |-> 0, media_ratio |-> 0,
     is_verified |-> TRUE, updated |-> updated] : i \in 0..MaxInteractions }

\* TelegramHarvester.load_from_cache: no row, or the row with 'username' added
CachedRows(handle, now) ==
  {Null} \cup
  { Update(row, [username |-> row["handle"]]) :
      row \in UNION { HarvesterRows(handle, now - age) : age \in CacheAges } }

\* what harvester.get_stats(handle) does: raises, returns None, or a live record
RefreshOutcomes(handle, now) == {Raised, Null} \cup HarvesterRows(handle, now)

\* getChat responses of the Bot API
BotResponses ==
  FailedResponses \cup
  { Response(FALSE, 200, [ok |-> FALSE]),
    Response(FALSE, 200, [ok |-> TRUE,
       result |-> [title |-> <<>>, description |-> <<>>, is_verified |-> TRUE]]),
    Response(FALSE, 200, [ok |-> TRUE,
       result |-> [title |-> <<"b","t","c">>,
                   description |-> <<"d","a","i","l","y">>]]) }

\* api.tgstat.ru/channels/get responses
TGStatResponses ==
  FailedResponses \cup
  { Response(FALSE, 200, [ok |-> FALSE]),
    Response(FALSE, 200, [ok |-> TRUE]),
    Response(FALSE, 200, [ok |-> TRUE,
       result |-> [title |-> <<"N","e","w","s">>, description |-> LongText,
                   participantsCount |-> Num(1500), avgPostReach |-> Num(300),
                   postsCount |-> 400, createdAt |-> [k |-> "date", t |-> Clock0 - 400 * DAY],
                   lastPostDate |-> [k |-> "date", t |-> Clock0 - 20 * DAY],
                   verified |-> TRUE, engagement_rate |-> 9999]]),
    Response(FALSE, 200, [ok |-> TRUE,
       result |-> [participantsCount |-> Num(-5), avgPostReach |-> Num(-3)]]),
    Response(FALSE, 200, [ok |-> TRUE,
       result |-> [participantsCount |-> Str(<<"1","5","0","0">>)]]),
    Response(FALSE, 200, [ok |-> TRUE,
       result |-> [participantsCount |-> Num(0), avgPostReach |-> Str(<<"1","2">>),
                   postsCount |-> 3, createdAt |-> [k |-> "bad"]]]) }

----------------------------------------------------------------------------
(* State *)

VARIABLES
  pc,              \* position of the request
  cfg,             \* Config: which providers are configured
  now,             \* the clock
  request,         \* the username handed to analyze_channel
  username,        \* username.lstrip('@')
  calls,           \* the provider calls issued so far, in order
  telemetrio_data, \* result of _get_telemetrio_data
  harv_in,         \* what get_stats saw: cached row, refresh outcome, Bot API data
  harv,            \* result of harvester.get_stats
  tgstat_data,     \* result of tgstat.get_channel_data
  base,            \* the primary record before the merge
  result,          \* what analyze_channel returns (Null, a record) or Raised
  min_cpm,         \* Config.MIN_CPM_TON, a price
  eligibility,     \* EligibilityResult
  recommendation,  \* CPMRecommendation
  arg,             \* the arguments of a function called on its own
  out,             \* what that call returned
  last_requests,   \* CPMRecommendationBot._last_requests: user id -> time
  commands,        \* the /analyze commands, one thread each
  db,              \* FirebaseManager.db: Null, or a client whose writes work or raise
  saved,           \* the records handed to save_channel_analysis, in order
  reply            \* the last message sent to the requester

vars == <<pc, cfg, now, request, username, calls, telemetrio_data, harv_in, harv,
          tgstat_data, base, result, min_cpm, eligibility, recommendation, arg, out,
          last_requests, commands, db, saved, reply>>

\* the bot's own state: the rate-limit map, the command threads, the store
bot_state == <<last_requests, commands, db, saved, reply>>

\* CPMRecommendationBot.__init__: no request recorded, nothing sent or stored
Quiet ==
  /\ last_requests = EmptyDict
  /\ commands = <<>>
  /\ saved = <<>>
  /\ reply = Null

\* Config.MIN_CPM_TON's default, in cents
MIN_CPM_TON == 10

\* a request handed to analyze_channel, whatever the store is
Start ==
  /\ pc = "start"
  /\ cfg \in [api_key : BOOLEAN, harvester : BOOLEAN, bot_token : BOOLEAN]
  /\ now = Clock0
  /\ request \in RawUsernames
  /\ username = <<>>
  /\ calls = <<>>
  /\ telemetrio_data = Null
  /\ harv_in = Null
  /\ harv = Null
  /\ tgstat_data = Null
  /\ base = Null
  /\ result = Null
  /\ min_cpm = Cents(MIN_CPM_TON)
  /\ eligibility = Null
  /\ recommendation = Null
  /\ arg = Null
  /\ out = Null
  /\ Quiet

Init ==
  /\ Start
  /\ db = Null

\* Step 1: username.lstrip('@') and _get_telemetrio_data
TryTelemetrio ==
  /\ pc = "start"
  /\ \E info \in InfoResponses, stats \in StatsResponses :
       telemetrio_data' = get_telemetrio_data(cfg.api_key, info, stats)
  /\ username' = LStrip(request, "@")
  /\ calls' = IF cfg.api_key THEN Append(calls, "telemetrio") ELSE calls
  /\ pc' = "telemetrio_done"
  /\ UNCHANGED <<cfg, now, request, harv_in, harv, tgstat_data, base, result,
                 min_cpm, eligibility, recommendation, arg, out, bot_state>>

\* 'if telemetrio_data:' up to the supplementary call or the return
UseTelemetrio ==
  /\ pc = "telemetrio_done"
  /\ Truthy(telemetrio_data)
  /\ LET metrics == process_telemetrio_data(username, telemetrio_data, now) IN
       IF metrics = Raised
       THEN /\ result' = Raised
            /\ base' = base
            /\ pc' = "done"
       ELSE IF wants_supplement(cfg.harvester, metrics)
       THEN /\ base' = metrics
            /\ result' = result
            /\ pc' = "supplement"
       ELSE /\ base' = metrics
            /\ result' = metrics
            /\ pc' = "done"
  /\ UNCHANGED <<cfg, now, request, username, calls, telemetrio_data, harv_in, harv,
                 tgstat_data, min_cpm, eligibility, recommendation, arg, out, bot_state>>

\* harvester.get_stats(username) with its three collaborators' answers drawn
CallHarvester(tag) ==
  \E cached \in CachedRows(LStrip(username, "@"), now),
     refresh \in RefreshOutcomes(LStrip(username, "@"), now),
     r \in BotResponses :
    LET handle == LStrip(username, "@")
        bot_api_data == get_bot_api_info(cfg.bot_token, handle, r)
    IN  /\ harv' = get_stats(handle, cached, now, refresh, bot_api_data)
        /\ harv_in' = [cached |-> cached,
                       refresh |-> IF needs_refresh(cached, now) THEN refresh ELSE Null,
                       refreshed |-> needs_refresh(cached, now),
                       attempts |-> IF needs_refresh(cached, now) THEN 1 ELSE 0,
                       bot_api_data |-> IF Truthy(analytics_data(cached, now, refresh))
                                        THEN bot_api_data ELSE Null]
        /\ calls' = Append(calls, tag)

\* the supplementary call and the merge
Supplement ==
  /\ pc = "supplement"
  /\ CallHarvester("harvester_supplement")
  /\ result' = merge_harvester(base, harv')
  /\ pc' = "done"
  /\ UNCHANGED <<cfg, now, request, username, telemetrio_data, tgstat_data, base,
                 min_cpm, eligibility, recommendation, arg, out, bot_state>>

\* Step 2: the harvester as fallback
TryHarvester ==
  /\ pc = "telemetrio_done"
  /\ ~Truthy(telemetrio_data)
  /\ IF cfg.harvester
     THEN /\ CallHarvester("harvester")
          /\ IF harvester_hit(harv')
             THEN /\ result' = process_harvester_data(harv', now)
                  /\ pc' = "done"
             ELSE /\ result' = result
                  /\ pc' = "harvester_done"
     ELSE /\ pc' = "harvester_done"
          /\ UNCHANGED <<harv, harv_in, calls, result>>
  /\ UNCHANGED <<cfg, now, request, username, telemetrio_data, tgstat_data, base,
                 min_cpm, eligibility, recommendation, arg, out, bot_state>>

\* Step 3: TGStat as final fallback
TryTGStat ==
  /\ pc = "harvester_done"
  /\ \E r \in TGStatResponses : tgstat_data' = get_channel_data(r)
  /\ calls' = Append(calls, "tgstat")
  /\ result' = IF tgstat_hit(tgstat_data')
               THEN process_tgstat_data(username, tgstat_data', now)
               ELSE Null
  /\ pc' = "done"
  /\ UNCHANGED <<cfg, now, request, username, telemetrio_data, harv_in, harv, base,
                 min_cpm, eligibility, recommendation, arg, out, bot_state>>

Next == TryTelemetrio \/ UseTelemetrio \/ Supplement \/ TryHarvester \/ TryTGStat

Spec == Init /\ [][Next]_vars

----------------------------------------------------------------------------
(* Eligibility and pricing applied to a metrics record *)

\* Step "Check eligibility" of analyze_channel_command
CheckEligibility ==
  /\ pc = "done"
  /\ result # Null /\ result # Raised
  /\ eligibility' = check_eligibility(result, now)
  /\ pc' = "checked"
  /\ UNCHANGED <<cfg, now, request, username, calls, telemetrio_data, harv_in, harv,
                 tgstat_data, base, result, min_cpm, recommendation, arg, out, bot_state>>

\* Step "Calculate enhanced CPM" of analyze_channel_command
CalculateCPM ==
  /\ pc = "checked"
  /\ recommendation' = calculate_cpm(result, eligibility, min_cpm)
  /\ pc' = "priced"
  /\ UNCHANGED <<cfg, now, request, username, calls, telemetrio_data, harv_in, harv,
                 tgstat_data, base, result, min_cpm, eligibility, arg, out, bot_state>>

\* a record whose engagement_rate is avg_views / subscribers * 100, as every
\* normalizer computes it; avg_views is views_pct percent of the subscribers
MetricsOf(subscribers, views_pct, is_public, is_verified, description, last_post_date, niche, has_profile_photo, quality, reactions, posts_per_day) ==
  LET avg_views == (subscribers * views_pct) \div 100 IN
  ChannelMetrics(<<"c","h">>, <<"C","h">>, subscribers, is_public, is_verified,
                 description, 0, avg_views,
                 IF subscribers > 0 /\ avg_views > 0
                 THEN RoundDiv(avg_views * 10000, subscribers) ELSE 0,
                 last_post_date, niche, has_profile_photo, quality,
                 0, reactions, 50, posts_per_day)

\* the last post's age, in seconds: in the future, today, around the activity window
IdleTimes == { d * DAY + sec : d \in {-1, 0} \cup (13..MaxIdleDays), sec \in {0, DAY - 1} }

EligibilityInputs ==
  { MetricsOf(subscribers, views_pct, is_public, FALSE, description, Clock0 - idle,
              "gaming", has_profile_photo, quality, 0, Ratio(0, 1)) :
      subscribers \in {0, 500, 999, 1000, 20000},
      views_pct \in {0, 9, 10, 30},
      is_public \in BOOLEAN,
      description \in { <<>>, <<" ">>, <<"a">> },
      idle \in IdleTimes,
      has_profile_photo \in BOOLEAN,
      quality \in {0, 29, 30, 50} }

Idle ==
  /\ cfg = [api_key |-> FALSE, harvester |-> FALSE, bot_token |-> FALSE]
  /\ now = Clock0
  /\ request = <<>>
  /\ username = <<>>
  /\ calls = <<>>
  /\ telemetrio_data = Null
  /\ harv_in = Null
  /\ harv = Null
  /\ tgstat_data = Null
  /\ base = Null
  /\ eligibility = Null
  /\ recommendation = Null
  /\ arg = Null
  /\ out = Null
  /\ Quiet
  /\ db = Null

InitEligibility ==
  /\ Idle
  /\ pc = "done"
  /\ result \in EligibilityInputs
  /\ min_cpm = Cents(MIN_CPM_TON)

NextEligibility == CheckEligibility

\* check_eligibility applied to every record of EligibilityInputs
SpecEligibility == InitEligibility /\ [][NextEligibility]_vars

\* configured minimum prices: MIN_CPM_TON is any float of the environment;
\* -0.10, 0, the default 0.10, 0.104, 0.40 and 1.00 TON
MinPrices ==
  { Cents(-10), Cents(0), Cents(MIN_CPM_TON), [w |-> 10, r |-> 2, d |-> 5],
    Cents(40), Cents(100) }

PricingInputs ==
  { MetricsOf(subscribers, views_pct, TRUE, is_verified, <<"a">>, Clock0 - DAY,
              niche, TRUE, quality, (subscribers * views_pct * halves) \div 2, posts_per_day) :
      subscribers \in {0, 1000, 20000, 50000, 100000},
      views_pct \in {0, 5, 10, 20, 30, 50},
      is_verified \in BOOLEAN,
      niche \in {"crypto", "gaming", "entertainment", "lifestyle"},
      quality \in {0, 50, 80, 100},
      halves \in {0, 1, 2, 12, 22},
      posts_per_day \in { Ratio(0, 1), Ratio(1, 4), Ratio(3, 2), Ratio(2, 1) } }

InitPricing ==
  /\ Idle
  /\ pc = "done"
  /\ result \in PricingInputs
  /\ min_cpm \in MinPrices

NextPricing == CheckEligibility \/ CalculateCPM

\* check_eligibility and calculate_cpm applied to every record of PricingInputs
SpecPricing == InitPricing /\ [][NextPricing]_vars

----------------------------------------------------------------------------
(* The pure functions, each called on its own with arguments drawn from a set *)

\* subscriber counts around the tier thresholds
SubscriberCounts ==
  { -1, 0, 1, 999, 1000, 1001, 9999, 10000, 10001, 49999, 50000, 50001,
    99999, 100000, 100001, 1000000 }

Titles ==
  { <<>>, <<"C","r","y","p","t","o"," ","T","e","c","h">>,
    <<"t","e","c","h"," ","c","r","y","p","t","o">>, <<"A","I">>,
    <<"d","a","i","l","y">>, <<"b","t","c">>, <<"a","l","t","c","o","i","n">>,
    <<"S","a","l","e","s">>, <<"f","u","n">>, <<"x","y","z">>,
    <<"G","a","m","e"," ","n","e","w","s">>, <<"c","o","u","r","s","e">>,
    <<"m","o","n","e","y">>, <<"s","t","a","r","t","u","p">> }

Descriptions ==
  { <<>>, <<"s","o","f","t","w","a","r","e">>, <<"N","F","T"," ","d","r","o","p">>,
    <<"m","e","m","e">> }

\* descriptions of no, exactly 50 and more than 50 characters
DescriptionLengths == { <<>>, Chars(50, "x"), Chars(51, "x") }

\* payloads of the Telemetr.io scorer: every combination of its bonus triggers
TelemetrioQualityInputs ==
  { [subscribers |-> Num(subscribers), avg_views |-> Num(avg_views),
     posts_last_week |-> recent_posts, verified |-> verified,
     description |-> description] :
      subscribers \in {0, 1000},
      avg_views \in {0, 150, 151, 300, 301},
      recent_posts \in {0, 3, 7},
      verified \in BOOLEAN,
      description \in DescriptionLengths }

\* rows of the harvester scorer: every combination of its bonus triggers
HarvesterQualityInputs ==
  { [subs |-> subs, avg_views |-> avg_views, posts_per_day |-> posts_per_day,
     media_ratio |-> media_ratio, total_reactions |-> total_reactions,
     total_forwards |-> total_forwards, is_verified |-> is_verified] :
      subs \in {0, 1000},
      avg_views \in {0, 151, 301},
      posts_per_day \in { Ratio(0, 1), Ratio(1, 2), Ratio(1, 1) },
      media_ratio \in {50, 51},
      total_reactions \in 0..MaxInteractions,
      total_forwards \in {0, 1},
      is_verified \in BOOLEAN }

\* arguments of the TGStat scorer: every combination of its bonus triggers
TGStatQualityInputs ==
  { [data |-> IF created = 0
              THEN [description |-> description, verified |-> verified]
              ELSE [description |-> description, verified |-> verified,
                    createdAt |-> [k |-> "date", t |-> Clock0 - created * DAY]],
     subscribers |-> subscribers, engagement_rate |-> engagement_rate] :
      created \in {0, 365, 366},
      description \in DescriptionLengths,
      verified \in BOOLEAN,
      subscribers \in {0, 1001, 10001, 50001},
      engagement_rate \in { Ratio(0, 1), Ratio(51, 10), Ratio(101, 10), Ratio(201, 10) } }

FunctionCalls ==
  { [f |-> "_get_base_cpm", subscribers |-> n] : n \in SubscriberCounts }
  \cup { [f |-> f, title |-> t, description |-> d] :
           f \in {"_classify_niche", "_classify_niche_tgstat"},
           t \in Titles, d \in Descriptions }
  \cup { [f |-> "_assess_telemetrio_quality", data |-> d] : d \in TelemetrioQualityInputs }
  \cup { [f |-> "_assess_harvester_quality", data |-> d] : d \in HarvesterQualityInputs }
  \cup { [f |-> "_assess_tgstat_quality", data |-> a.data, subscribers |-> a.subscribers,
          engagement_rate |-> a.engagement_rate] : a \in TGStatQualityInputs }

\* everything but the returned value
Caller ==
  <<cfg, now, request, username, calls, telemetrio_data, harv_in, harv,
    tgstat_data, base, result, min_cpm, eligibility, recommendation, arg, bot_state>>

\* a call of CPMCalculator._get_base_cpm
GetBaseCpm ==
  /\ pc = "call"
  /\ arg.f = "_get_base_cpm"
  /\ out' = get_base_cpm(arg.subscribers)
  /\ pc' = "returned"
  /\ UNCHANGED Caller

\* a call of ChannelAnalyzer._classify_niche
ClassifyNiche ==
  /\ pc = "call"
  /\ arg.f = "_classify_niche"
  /\ out' = classify_niche(arg.title, arg.description)
  /\ pc' = "returned"
  /\ UNCHANGED Caller

\* a call of TGStatAnalyzer._classify_niche_tgstat
ClassifyNicheTGStat ==
  /\ pc = "call"
  /\ arg.f = "_classify_niche_tgstat"
  /\ out' = classify_niche_tgstat(arg.title, arg.description)
  /\ pc' = "returned"
  /\ UNCHANGED Caller

\* a call of ChannelAnalyzer._assess_telemetrio_quality
AssessTelemetrioQuality ==
  /\ pc = "call"
  /\ arg.f = "_assess_telemetrio_quality"
  /\ out' = assess_telemetrio_quality(arg.data)
  /\ pc' = "returned"
  /\ UNCHANGED Caller

\* a call of ChannelAnalyzer._assess_harvester_quality
AssessHarvesterQuality ==
  /\ pc = "call"
  /\ arg.f = "_assess_harvester_quality"
  /\ out' = assess_harvester_quality(arg.data)
  /\ pc' = "returned"
  /\ UNCHANGED Caller

\* a call of TGStatAnalyzer._assess_tgstat_quality
AssessTGStatQuality ==
  /\ pc = "call"
  /\ arg.f = "_assess_tgstat_quality"
  /\ out' = assess_tgstat_quality(arg.data, arg.subscribers, arg.engagement_rate, now)
  /\ pc' = "returned"
  /\ UNCHANGED Caller

InitFunctions ==
  /\ cfg = [api_key |-> FALSE, harvester |-> FALSE, bot_token |-> FALSE]
  /\ now = Clock0
  /\ request = <<>>
  /\ username = <<>>
  /\ calls = <<>>
  /\ telemetrio_data = Null
  /\ harv_in = Null
  /\ harv = Null
  /\ tgstat_data = Null
  /\ base = Null
  /\ result = Null
  /\ min_cpm = Cents(MIN_CPM_TON)
  /\ eligibility = Null
  /\ recommendation = Null
  /\ pc = "call"
  /\ arg \in FunctionCalls
  /\ out = Null
  /\ Quiet
  /\ db = Null

NextFunctions ==
  \/ GetBaseCpm
  \/ ClassifyNiche
  \/ ClassifyNicheTGStat
  \/ AssessTelemetrioQuality
  \/ AssessHarvesterQuality
  \/ AssessTGStatQuality

\* each pure function applied to every argument of FunctionCalls
SpecFunctions == InitFunctions /\ [][NextFunctions]_vars

----------------------------------------------------------------------------
(* Properties of the provider waterfall *)

Called(tag) == \E i \in 1..Len(calls) : calls[i] = tag

CountCalls(tag) == Cardinality({ i \in 1..Len(calls) : calls[i] = tag })

\* analyze_channel has returned a record
Returned == pc = "done" /\ result # Null /\ result # Raised

\* C1: the providers are consulted in the order Telemetr.io, harvester, TGStat;
\* the harvester is queried as a fallback only after Telemetr.io yielded nothing,
\* TGStat only after both yielded nothing; a provider that failed (timeout,
\* non-ok status, exception) lets control proceed to the next one; once a
\* provider yielded a payload no later provider is queried as a fallback.
C1_StrictWaterfall ==
  /\ calls \in { <<>>, <<"telemetrio">>, <<"harvester">>, <<"tgstat">>,
                 <<"telemetrio", "harvester_supplement">>,
                 <<"telemetrio", "harvester">>, <<"telemetrio", "tgstat">>,
                 <<"harvester", "tgstat">>,
                 <<"telemetrio", "harvester", "tgstat">> }
  /\ Called("harvester") => ~Truthy(telemetrio_data)
  /\ Called("tgstat") => ~Truthy(telemetrio_data) /\ ~Truthy(harv)
  /\ Called("harvester_supplement") => Truthy(telemetrio_data)
  /\ (pc = "done" /\ ~Truthy(telemetrio_data) /\ cfg.harvester) => Called("harvester")
  /\ (pc = "done" /\ ~Truthy(telemetrio_data) /\ ~Truthy(harv)) => Called("tgstat")

\* C1 witness: both earlier providers were queried and failed, the third answered
C1_Witness ==
  /\ pc = "done"
  /\ calls = <<"telemetrio", "harvester", "tgstat">>
  /\ Truthy(tgstat_data)
  /\ result # Null

\* C2: when all three providers yield nothing, analyze_channel returns None
C2_NotFound ==
  (pc = "done" /\ ~Truthy(telemetrio_data) /\ ~Truthy(harv) /\ ~Truthy(tgstat_data))
    => result = Null

\* C2 witness: all three providers were queried, none had a payload
C2_Witness ==
  /\ pc = "done"
  /\ calls = <<"telemetrio", "harvester", "tgstat">>
  /\ ~Truthy(tgstat_data)
  /\ result = Null

\* the supplementary call was made and the merge done
Merged == pc = "done" /\ Called("harvester_supplement") /\ base # Null

\* the fields that were gaps in the primary record
GapFields(m) ==
  (IF m.description = <<>> \/ Strip(m.description) = <<>> THEN {"description"} ELSE {})
  \cup (IF m.posts_per_day.n = 0 THEN {"posts_per_day"} ELSE {})
  \cup (IF m.total_reactions = 0 /\ m.total_forwards = 0 /\ m.media_ratio = 0
        THEN {"total_reactions", "total_forwards", "media_ratio"} ELSE {})

\* C3 as stated: the merge changes only the fields that were gaps; every other
\* field, the verification flag included, keeps the primary's value
C3_Original_OnlyGapsChange ==
  Merged =>
    \A f \in (DOMAIN base) \ GapFields(base) :
      (f = "is_verified" =>
         (Has(telemetrio_data, "verified") \/ Has(telemetrio_data, "is_verified")))
      => result[f] = base[f]

\* C3 amended: the merge changes only the gap fields and the verification flag,
\* which takes the secondary record's value whenever that record has one; every
\* other field keeps the primary's value
C3_MergeFrame ==
  Merged =>
    /\ \A f \in (DOMAIN base) \ (GapFields(base) \cup {"is_verified"}) :
         result[f] = base[f]
    /\ result.is_verified =
         IF Truthy(harv) /\ Has(harv, "is_verified") THEN harv["is_verified"]
         ELSE base.is_verified

\* C3 witness: the primary had a description, the secondary another one, and
\* the primary's survived the merge while the verification flag was replaced
C3_Witness ==
  /\ Merged
  /\ Truthy(harv)
  /\ base.description # <<>>
  /\ harv["description"] # base.description
  /\ result.description = base.description
  /\ result.is_verified # base.is_verified

\* C4: after a usable primary payload, exactly one supplementary call is made
\* if a harvester is configured and the primary record has one of the three
\* gaps, and no call to the harvester otherwise
C4_OneSupplementaryCall ==
  (pc = "done" /\ Truthy(telemetrio_data)) =>
    /\ ~Called("harvester")
    /\ CountCalls("harvester_supplement") =
         IF cfg.harvester /\ base # Null /\ GapFields(base) # {} THEN 1 ELSE 0

\* C4 witness: the primary answered and the one supplementary call was made
C4_Witness ==
  /\ pc = "done"
  /\ Truthy(telemetrio_data)
  /\ base # Null
  /\ base.description # <<>>
  /\ calls = <<"telemetrio", "harvester_supplement">>

----------------------------------------------------------------------------
(* Properties of the secondary provider blend *)

\* get_stats returned a record
Blended == harv_in # Null /\ harv # Null

\* the refresh produced live data
RefreshedLive == harv_in.refreshed /\ harv_in.refresh # Null /\ harv_in.refresh # Raised

\* the analytics record the blend started from
Analytics == IF RefreshedLive THEN harv_in.refresh ELSE harv_in.cached

\* C5 as stated: when the Bot API lookup succeeds, verification flag,
\* description and title all equal the lookup's values, even empty ones
C5_Original_BotApiOverridesAll ==
  (Blended /\ harv_in.bot_api_data # Null) =>
    /\ harv["is_verified"] = harv_in.bot_api_data.is_verified
    /\ harv["description"] = harv_in.bot_api_data.description
    /\ harv["title"] = harv_in.bot_api_data.title

\* C5 amended: when the lookup succeeds, verification flag and description
\* equal the lookup's values (even an empty description), and the title equals
\* the lookup's title unless that is empty, in which case the analytics
\* record's title is kept
C5_BotApiOverride ==
  (Blended /\ harv_in.bot_api_data # Null) =>
    /\ harv["is_verified"] = harv_in.bot_api_data.is_verified
    /\ harv["description"] = harv_in.bot_api_data.description
    /\ harv["title"] = IF harv_in.bot_api_data.title # <<>>
                       THEN harv_in.bot_api_data.title
                       ELSE Analytics["title"]

\* C5 witness: the lookup's empty description replaced a cached one
C5_Witness ==
  /\ Blended
  /\ harv_in.bot_api_data # Null
  /\ harv_in.bot_api_data.description = <<>>
  /\ Analytics["description"] # <<>>
  /\ harv["description"] = <<>>

\* the columns of a cached row that the Bot API never overrides
AnalyticsColumns ==
  {"handle", "subs", "avg_views", "posts_per_day", "total_forwards",
   "total_reactions", "media_ratio", "updated"}

C7_Original_ResultTellsFreshness ==
  (Returned /\ Called("harvester")) =>
    /\ harv["fresh"] = RefreshedLive
    /\ process_harvester_data(Update(harv, [fresh |-> ~harv["fresh"]]), now) # result

\* What the code does for C7: every record get_stats returns carries the flag,
\* true exactly when its analytics data was fetched live during the call and
\* false exactly when it is the cached row; the flag is on that record only,
\* the ChannelMetrics the coordinator returns does not carry it
C7_FreshnessFlag ==
  /\ Blended =>
       /\ Has(harv, "fresh")
       /\ harv["fresh"] = RefreshedLive
       /\ harv["fresh"] =>
            \A c \in AnalyticsColumns : harv[c] = harv_in.refresh[c]
       /\ ~harv["fresh"] =>
            /\ harv_in.cached # Null
            /\ \A c \in AnalyticsColumns : harv[c] = harv_in.cached[c]
  /\ Returned => ~Has(result, "fresh")

\* C7 witness: a stale row was replaced by live data and the record says so
C7_Witness ==
  /\ Returned
  /\ Called("harvester")
  /\ harv_in.cached # Null
  /\ RefreshedLive
  /\ harv["fresh"] = TRUE

----------------------------------------------------------------------------
(* Properties of eligibility and pricing *)

Checked == pc \in {"checked", "priced"}

IsPublic == result.is_public

EnoughSubscribers == result.subscribers >= 1000

\* whole days since the last post, within the 14-day window
RecentlyActive == (now - result.last_post_date) \div 86400 <= 14

When(cond, message) == IF cond THEN <<message>> ELSE <<>>

\* C8: all three hard requirements are evaluated; eligible iff public, enough
\* subscribers and recently active; the reasons are the failures' messages in
\* the order public, subscribers, activity, then the confirmation iff none failed
C8_HardRequirements ==
  Checked =>
    /\ eligibility.eligible = (IsPublic /\ EnoughSubscribers /\ RecentlyActive)
    /\ eligibility.reasons =
         When(~IsPublic, "Channel must be public")
         \o When(~EnoughSubscribers, "Needs MIN_SUBSCRIBERS+ subscribers")
         \o When(~RecentlyActive, "No activity in last ACTIVITY_DAYS days")
         \o When(IsPublic /\ EnoughSubscribers /\ RecentlyActive,
                 "Meets basic Telegram ads requirements")

\* C8 witness: a private, small, idle channel gets all three reasons
C8_Witness ==
  /\ Checked
  /\ ~IsPublic /\ ~EnoughSubscribers /\ ~RecentlyActive
  /\ Len(eligibility.reasons) = 3

\* the decrement of a soft warning that fired, in hundredths
Cost(fired, amount) == IF fired THEN amount ELSE 0

\* C9: confidence is 1.0 minus the decrements of the warnings that fired
\* (photo 0.1, description 0.1, engagement below 10% 0.2, quality below 0.3
\* 0.1), floored at 0, so it lies in [0,1]; it is decided by the soft fields
\* alone; the warnings list holds the fired warnings in that order
C9_Confidence ==
  Checked =>
    LET noPhoto == ~result.has_profile_photo
        noDesc  == result.description = <<>>
        lowEng  == result.engagement_rate < 1000
        lowQual == result.content_quality_score < 30
        total   == Cost(noPhoto, 10) + Cost(noDesc, 10) + Cost(lowEng, 20)
                   + Cost(lowQual, 10)
    IN  /\ eligibility.confidence = IF total > 100 THEN 0 ELSE 100 - total
        /\ eligibility.confidence >= 0 /\ eligibility.confidence <= 100
        /\ eligibility.warnings =
             When(noPhoto, "Missing profile photo")
             \o When(noDesc, "Missing channel description")
             \o When(lowEng, "Low engagement rate (<10%)")
             \o When(lowQual, "Low content quality score")

\* C9 witness: 500 subscribers, public, active, well kept: one reason, the
\* subscriber shortfall, and full confidence
C9_Witness ==
  /\ Checked
  /\ result.subscribers = 500 /\ IsPublic /\ RecentlyActive
  /\ ~eligibility.eligible
  /\ eligibility.reasons = <<"Needs MIN_SUBSCRIBERS+ subscribers">>
  /\ eligibility.warnings = <<>>
  /\ eligibility.confidence = 100

\* C10: the returned, rounded prices satisfy conservative <= competitive <= aggressive
C10_PriceOrder ==
  pc = "priced" =>
    /\ recommendation.conservative <= recommendation.competitive
    /\ recommendation.competitive <= recommendation.aggressive

\* C10 witness: the unfloored competitive price is below the minimum, so all
\* three points were floored
C10_Witness ==
  /\ pc = "priced"
  /\ min_cpm = Cents(40)
  /\ raw_competitive(result).w < 40
  /\ recommendation.conservative = 40
  /\ recommendation.competitive = 40
  /\ recommendation.aggressive = 52

\* C11: each of the three returned price points is at least the configured
\* minimum price, for every record and every configured minimum
C11_AtLeastMinimum ==
  pc = "priced" =>
    /\ PriceGE(Cents(recommendation.conservative), min_cpm)
    /\ PriceGE(Cents(recommendation.competitive), min_cpm)
    /\ PriceGE(Cents(recommendation.aggressive), min_cpm)

\* What the code does for C11: each returned price point is at least the
\* configured minimum rounded to two decimals
C11_AtLeastRoundedMinimum ==
  pc = "priced" =>
    /\ recommendation.conservative >= RoundCents(min_cpm)
    /\ recommendation.competitive >= RoundCents(min_cpm)
    /\ recommendation.aggressive >= RoundCents(min_cpm)

\* the product of the claim, multiplied from the last factor to the first
ProductOfMultipliers(m) ==
  LET p1 == MulFrac(Cents(get_frequency_multiplier(m.posts_per_day)),
                    get_interaction_multiplier(m), 100)
      p2 == MulFrac(p1, IF m.is_verified THEN 110 ELSE 100, 100)
      p3 == MulFrac(p2, 8000 + 40 * m.content_quality_score, 10000)
      p4 == MulFrac(p3, get_engagement_multiplier(m.engagement_rate), 100)
      p5 == MulFrac(p4, niche_multiplier(m.niche), 10)
  IN  MulFrac(p5, get_base_cpm(m.subscribers), 100)

\* the record of the worked example: 20000 subscribers, 6000 views, crypto,
\* quality 0.8, verified, 1.5 posts a day, no interactions
IsWorkedExample(m) ==
  /\ m.subscribers = 20000 /\ m.avg_views = 6000 /\ m.engagement_rate = 3000
  /\ m.niche = "crypto" /\ m.content_quality_score = 80 /\ m.is_verified
  /\ m.posts_per_day = Ratio(3, 2)
  /\ m.total_reactions = 0 /\ m.total_forwards = 0

\* C13: the competitive price is max(base x niche x engagement x quality x
\* verification x interaction x frequency, minimum), rounded to two decimals;
\* for the worked example it is 0.52
C13_CompetitiveFormula ==
  pc = "priced" =>
    /\ recommendation.competitive =
         LET product == ProductOfMultipliers(result)
         IN  RoundCents(IF PriceGE(product, min_cpm) THEN product ELSE min_cpm)
    /\ (IsWorkedExample(result) /\ PriceGE(Cents(52), min_cpm))
         => recommendation.competitive = 52

\* C13 witness: the worked example priced at 0.52 with the default minimum
C13_Witness ==
  /\ pc = "priced"
  /\ IsWorkedExample(result)
  /\ min_cpm = Cents(MIN_CPM_TON)
  /\ recommendation.competitive = 52

----------------------------------------------------------------------------
(* Properties of the pure functions *)

\* the call of f has returned
ReturnedFrom(f) == pc = "returned" /\ arg.f = f

\* C12: the base price is the price of the highest tier (thresholds 1,000 /
\* 10,000 / 50,000 / 100,000) whose threshold the subscriber count meets, and
\* the lowest tier's price below the lowest threshold (0 included): it is
\* always defined and positive
C12_BaseLookup ==
  ReturnedFrom("_get_base_cpm") =>
    LET met == { i \in 1..Len(subscriber_tiers) : arg.subscribers >= subscriber_tiers[i][1] }
    IN  /\ [i \in 1..Len(subscriber_tiers) |-> subscriber_tiers[i][1]]
             = <<1000, 10000, 50000, 100000>>
        /\ out = IF met = {}
                 THEN subscriber_tiers[1][2]
                 ELSE subscriber_tiers[CHOOSE i \in met : \A k \in met : k <= i][2]
        /\ out > 0

\* C12 witness: no subscribers at all, priced at the lowest tier
C12_Witness ==
  /\ ReturnedFrom("_get_base_cpm")
  /\ arg.subscribers = 0
  /\ out = subscriber_tiers[1][2]

\* the fixed order of the categories
NicheOrder ==
  <<"crypto", "tech", "business", "finance", "news", "gaming", "education",
    "entertainment">>

\* the lower-cased text a classifier call searches
SearchedText == Lower(arg.title \o <<" ">> \o arg.description)

\* category i of the table has a keyword that occurs in the text
Matches(table, i) == \E j \in 1..Len(table[i][2]) : Contains(SearchedText, table[i][2][j])

\* the result is the first category of the table with a keyword in the text,
\* entertainment when there is none
FirstInOrder(table) ==
  /\ [i \in 1..Len(table) |-> table[i][1]] = NicheOrder
  /\ \/ /\ \A i \in 1..Len(table) : ~Matches(table, i)
        /\ out = "entertainment"
     \/ \E i \in 1..Len(table) :
          /\ Matches(table, i)
          /\ \A k \in 1..(i - 1) : ~Matches(table, k)
          /\ out = table[i][1]
  /\ (Contains(SearchedText, <<"c","r","y","p","t","o">>)
        /\ Contains(SearchedText, <<"t","e","c","h">>)) => out = "crypto"
  /\ \E i \in 1..Len(NicheOrder) : out = NicheOrder[i]

\* C14: niche classification returns the first category, in the order crypto,
\* tech, business, finance, news, gaming, education, entertainment, with a
\* keyword that is a substring of the lower-cased title and description; crypto
\* beats tech; no match gives entertainment; the result is never null
C14_FirstCategoryWins ==
  /\ ReturnedFrom("_classify_niche") => FirstInOrder(NicheKeywords)
  /\ ReturnedFrom("_classify_niche_tgstat") => FirstInOrder(NicheKeywordsTGStat)

\* C14 witness: a title naming tech before crypto is classified crypto
C14_Witness ==
  /\ ReturnedFrom("_classify_niche")
  /\ arg.title = <<"t","e","c","h"," ","c","r","y","p","t","o">>
  /\ out = "crypto"

\* C15: the tertiary provider's classifier assigns to every title and
\* description the niche the primary and secondary providers' classifier assigns
C15_SharedClassifier ==
  ReturnedFrom("_classify_niche_tgstat") =>
    out = classify_niche(arg.title, arg.description)

\* the three scorers
Scorers ==
  {"_assess_telemetrio_quality", "_assess_harvester_quality", "_assess_tgstat_quality"}

\* C16: the quality score of each of the three scorers lies in [0,1] for every
\* combination of bonus triggers, also when all bonuses fire
C16_QualityInRange ==
  (pc = "returned" /\ arg.f \in Scorers) => (out >= 0 /\ out <= 100)

\* C16 witness: all four bonuses of the Telemetr.io scorer fire (0.5 + 0.3 +
\* 0.2 + 0.2 + 0.1) and the score is 1.0
C16_Witness ==
  /\ ReturnedFrom("_assess_telemetrio_quality")
  /\ arg.data.avg_views.n * 100 > 30 * arg.data.subscribers.n
  /\ arg.data.subscribers.n > 0
  /\ arg.data.posts_last_week >= 7
  /\ arg.data.verified
  /\ Len(arg.data.description) > 50
  /\ out = 100

----------------------------------------------------------------------------
(* Properties of the normalized record *)

\* C17: the record's engagement rate is its own avg_views / subscribers x 100
\* (to two decimals) when subscribers > 0 and exactly 0 when subscribers = 0,
\* whatever engagement rate the raw payload carries
C17_EngagementRecomputed ==
  Returned =>
    /\ result.subscribers > 0 =>
         result.engagement_rate = RoundDiv(result.avg_views * 10000, result.subscribers)
    /\ result.subscribers = 0 => result.engagement_rate = 0

\* What the code does for C17: the rate is recomputed as claimed in every
\* record whose average view count is not negative
C17_RecomputedForNonNegativeViews ==
  (Returned /\ result.avg_views >= 0) =>
    /\ result.subscribers > 0 =>
         result.engagement_rate = RoundDiv(result.avg_views * 10000, result.subscribers)
    /\ result.subscribers = 0 => result.engagement_rate = 0

\* the tertiary provider was reached and answered with a record
TertiaryOnly == Returned /\ Called("tgstat")

\* C18: a record found only by the tertiary provider has is_public = true,
\* media_ratio = 0.5, total_forwards = 0 and total_reactions = 0
C18_TertiaryDefaults ==
  TertiaryOnly =>
    /\ result.is_public = TRUE
    /\ result.media_ratio = 50
    /\ result.total_forwards = 0
    /\ result.total_reactions = 0

\* C18 witness: the primary is not configured, the harvester has nothing, and
\* TGStat's payload became the record
C18_Witness ==
  /\ TertiaryOnly
  /\ ~Truthy(telemetrio_data)
  /\ cfg.harvester /\ harv = Null
  /\ result.subscribers = 1500
  /\ result.media_ratio = 50

\* C19: in every record the coordinator returns the subscriber count and the
\* average view count are not negative, also for payloads with negative numbers
C19_CountsNotNegative ==
  Returned => (result.subscribers >= 0 /\ result.avg_views >= 0)

\* C20: a usable payload with a malformed field still yields a metrics record:
\* analyze_channel neither raises nor returns not-found
C20_MalformedFieldTolerated ==
  pc = "done" =>
    /\ Truthy(telemetrio_data) => (result # Raised /\ result # Null)
    /\ (Called("tgstat") /\ Truthy(tgstat_data)) => (result # Raised /\ result # Null)

----------------------------------------------------------------------------
(* The /analyze command: every message starts a thread of its own that runs *)
(* analyze_channel_command; the threads share _last_requests without a lock *)

MaxCommands == 3

\* message.from_user.id
Users == {1, 2}

\* the instants at which the clock is read, in seconds after Clock0
Instants == {0, 59, 60, DAY + 59, DAY + 60}

\* (a - b).seconds of a timedelta: the seconds within the day, the days dropped
timedelta_seconds(a, b) == (a - b) % DAY

\* the variables of one analysis, which rate limiting leaves alone
analysis_state ==
  <<pc, cfg, request, username, calls, telemetrio_data, harv_in, harv, tgstat_data,
    base, result, min_cpm, eligibility, recommendation, arg, out, db, saved>>

\* time passes
Tick ==
  /\ \E i \in Instants : Clock0 + i > now /\ now' = Clock0 + i
  /\ UNCHANGED <<analysis_state, last_requests, commands, reply>>

\* analyze_command: thread.start() for a message of one user; the thread has
\* not read the clock (now) nor the map (recorded, seen) yet
AnalyzeCommand ==
  /\ Len(commands) < MaxCommands
  /\ \E user_id \in Users :
       commands' = Append(commands, [user_id |-> user_id, pc |-> "started",
                                     now |-> 0, recorded |-> FALSE, seen |-> 0])
  /\ UNCHANGED <<analysis_state, now, last_requests, reply>>

\* 'now = datetime.now()' of a thread
ReadClock ==
  /\ \E t \in 1..Len(commands) :
       /\ commands[t].pc = "started"
       /\ commands' = [commands EXCEPT ![t].now = now, ![t].pc = "clock_read"]
  /\ UNCHANGED <<analysis_state, now, last_requests, reply>>

\* 'if user_id in self._last_requests: ... if time_diff < 60: reply; return'
CheckRateLimit ==
  \E t \in 1..Len(commands) :
  LET c == commands[t]
      recorded == Has(last_requests, c.user_id)
      time_diff == IF recorded THEN timedelta_seconds(c.now, last_requests[c.user_id]) ELSE 0
      seen == IF recorded THEN last_requests[c.user_id] ELSE 0
  IN  /\ c.pc = "clock_read"
      /\ IF recorded /\ time_diff < 60
         THEN /\ commands' = [commands EXCEPT ![t].pc = "rejected", ![t].seen = seen,
                                                ![t].recorded = recorded]
              /\ reply' = [to |-> c.user_id, text |-> "Please wait", seconds |-> 60 - time_diff]
         ELSE /\ commands' = [commands EXCEPT ![t].pc = "passed", ![t].seen = seen,
                                                ![t].recorded = recorded]
              /\ reply' = reply
      /\ UNCHANGED <<analysis_state, now, last_requests>>

\* 'self._last_requests[user_id] = now', after which the analysis begins
RecordRequest ==
  \E t \in 1..Len(commands) :
  LET c == commands[t] IN
  /\ c.pc = "passed"
  /\ last_requests' = [u \in DOMAIN last_requests \cup {c.user_id} |->
                         IF u = c.user_id THEN c.now ELSE last_requests[u]]
  /\ commands' = [commands EXCEPT ![t].pc = "analysis"]
  /\ UNCHANGED <<analysis_state, now, reply>>

InitRateLimit ==
  /\ Idle
  /\ pc = "polling"
  /\ result = Null
  /\ min_cpm = Cents(MIN_CPM_TON)

NextRateLimit ==
  \/ Tick
  \/ AnalyzeCommand
  \/ ReadClock
  \/ CheckRateLimit
  \/ RecordRequest

\* the commands of two users, their threads interleaved at will
SpecRateLimit == InitRateLimit /\ [][NextRateLimit]_vars

\* thread t got past the rate-limit check
Passed(t) == commands[t].pc \in {"passed", "analysis"}

\* the threads of two commands of one requester whose clocks were read less
\* than 60 seconds apart
SameWindow(a, b) ==
  /\ a # b
  /\ commands[a].user_id = commands[b].user_id
  /\ commands[a].pc # "started" /\ commands[b].pc # "started"
  /\ commands[a].now - commands[b].now < 60
  /\ commands[b].now - commands[a].now < 60

\* C21: of two commands of the same requester within the 60-second window,
\* at most one passes the rate-limit check and proceeds to the analysis
C21_AtMostOnePasses ==
  \A a, b \in 1..Len(commands) : SameWindow(a, b) => ~(Passed(a) /\ Passed(b))

----------------------------------------------------------------------------
(* The /analyze command after the rate limit: analyze_channel, eligibility, *)
(* pricing, the response text, the store and the reply                      *)

\* FirebaseManager.__init__ leaves db None, or a client; a client's write
\* raises (network, permissions, empty document id) or works
DbStates == { Null, [writes |-> "raise"], [writes |-> "work"] }

\* get_ton_price, in US cents: the fetched price, or 5.0 when the fetch fails
TonPrices == { 321, 500 }

\* mutant of save_channel_analysis: the write's exception is not caught
save_channel_analysis_uncaught(db_, channel_data) ==
  IF db_ = Null THEN [raised |-> FALSE, returned |-> FALSE]
  ELSE IF db_.writes = "raise" THEN [raised |-> TRUE, returned |-> FALSE]
  ELSE [raised |-> FALSE, returned |-> TRUE]

\* FirebaseManager.save_channel_analysis: what the call does to its caller
save_channel_analysis(db_, channel_data) ==
  IF db_ = Null THEN [raised |-> FALSE, returned |-> FALSE]
  ELSE IF db_.writes = "raise" THEN [raised |-> FALSE, returned |-> FALSE]
  ELSE [raised |-> FALSE, returned |-> TRUE]

\* the dictionary analyze_channel_command hands to save_channel_analysis
channel_data(metrics, elig, cpm_rec) ==
  [username |-> metrics.username, subscribers |-> metrics.subscribers,
   niche |-> metrics.niche, eligible |-> elig.eligible,
   competitive_cpm |-> cpm_rec.competitive,
   engagement_rate |-> metrics.engagement_rate,
   posts_per_day |-> metrics.posts_per_day,
   total_reactions |-> metrics.total_reactions,
   total_forwards |-> metrics.total_forwards,
   media_ratio |-> metrics.media_ratio, is_verified |-> metrics.is_verified]

\* CPMRecommendationBot.format_time_ago
format_time_ago(date, now_) ==
  LET days == (now_ - date) \div DAY
      seconds == (now_ - date) % DAY
  IN  IF days > 0 THEN <<days, "days ago">>
      ELSE IF seconds > 3600 THEN <<seconds \div 3600, "hours ago">>
      ELSE <<seconds \div 60, "minutes ago">>

engagement_tier(engagement_rate) ==
  IF engagement_rate >= 4000 THEN "Outstanding"
  ELSE IF engagement_rate >= 3000 THEN "Excellent"
  ELSE IF engagement_rate >= 2000 THEN "Good"
  ELSE IF engagement_rate >= 1000 THEN "Average"
  ELSE "Low"

activity_level(posts_per_day) ==
  IF RatioGE(posts_per_day, 2, 1) THEN "Very Active"
  ELSE IF RatioGE(posts_per_day, 1, 1) THEN "Active"
  ELSE IF RatioGE(posts_per_day, 1, 2) THEN "Regular"
  ELSE "Low Activity"

\* seq[:n]
Prefix(seq, n) == SubSeq(seq, 1, Min(n, Len(seq)))

\* CPMRecommendationBot.format_enhanced_analysis_response: the text, as the
\* values it shows.  The branch of an eligible channel names 'cmp_rec', which
\* is not defined: the f-string raises NameError, whatever the prices are
format_enhanced_analysis_response(metrics, elig, cpm_rec, ton_price, now_) ==
  IF elig.eligible THEN Raised
  ELSE [text |-> "Enhanced CPM Analysis",
        username |-> metrics.username,
        eligible |-> elig.eligible,
        subscribers |-> metrics.subscribers,
        avg_views |-> metrics.avg_views,
        engagement |-> <<RoundDiv(metrics.engagement_rate, 10),
                         engagement_tier(metrics.engagement_rate)>>,
        niche |-> metrics.niche,
        verified |-> metrics.is_verified,
        description |-> IF Len(metrics.description) > 100
                        THEN Prefix(metrics.description, 100) \o <<".",".",".">>
                        ELSE metrics.description,
        activity |-> <<metrics.posts_per_day, activity_level(metrics.posts_per_day)>>,
        media |-> metrics.media_ratio,
        reactions |-> metrics.total_reactions,
        forwards |-> metrics.total_forwards,
        last_post |-> format_time_ago(metrics.last_post_date, now_),
        reasons |-> Prefix(elig.reasons, 3),
        warnings |-> Prefix(elig.warnings, 3)]

\* the replies of analyze_channel_command other than the analysis
NotFound == [text |-> "Channel not found or not accessible"]
AnalysisFailed == [text |-> "Analysis failed"]

\* what the command sends after pricing: the formatted text, unless the
\* formatting or the save raised
analysis_reply(metrics, elig, cpm_rec, ton_price, now_, db_) ==
  LET response == format_enhanced_analysis_response(metrics, elig, cpm_rec, ton_price, now_)
      save == save_channel_analysis(db_, channel_data(metrics, elig, cpm_rec))
  IN  IF response = Raised \/ save.raised THEN AnalysisFailed ELSE response

InitCommand ==
  /\ Start
  /\ db \in DbStates

\* 'except Exception as analysis_error' around analyze_channel
ReplyAnalysisFailed ==
  /\ pc = "done"
  /\ result = Raised
  /\ reply' = AnalysisFailed
  /\ pc' = "replied"
  /\ UNCHANGED <<cfg, now, request, username, calls, telemetrio_data, harv_in, harv,
                 tgstat_data, base, result, min_cpm, eligibility, recommendation,
                 arg, out, last_requests, commands, db, saved>>

\* 'if not metrics:'
ReplyNotFound ==
  /\ pc = "done"
  /\ result = Null
  /\ reply' = NotFound
  /\ pc' = "replied"
  /\ UNCHANGED <<cfg, now, request, username, calls, telemetrio_data, harv_in, harv,
                 tgstat_data, base, result, min_cpm, eligibility, recommendation,
                 arg, out, last_requests, commands, db, saved>>

\* from 'Get TON price' to the end of analyze_channel_command: the text is
\* formatted, the record saved, the text sent; any exception on the way ends
\* in 'except Exception as e', which replies 'Analysis failed'
Respond ==
  /\ pc = "priced"
  /\ \E ton_price \in TonPrices :
       LET response == format_enhanced_analysis_response(result, eligibility,
                                                         recommendation, ton_price, now)
       IN  /\ saved' = IF response = Raised THEN saved
                       ELSE Append(saved, channel_data(result, eligibility, recommendation))
           /\ reply' = analysis_reply(result, eligibility, recommendation, ton_price,
                                      now, db)
  /\ pc' = "replied"
  /\ UNCHANGED <<cfg, now, request, username, calls, telemetrio_data, harv_in, harv,
                 tgstat_data, base, result, min_cpm, eligibility, recommendation,
                 arg, out, last_requests, commands, db>>

NextCommand ==
  \/ TryTelemetrio
  \/ UseTelemetrio
  \/ Supplement
  \/ TryHarvester
  \/ TryTGStat
  \/ ReplyAnalysisFailed
  \/ ReplyNotFound
  \/ CheckEligibility
  \/ CalculateCPM
  \/ Respond

\* one /analyze command from analyze_channel to the reply, for every store
SpecCommand == InitCommand /\ [][NextCommand]_vars

\* the command of a returned metrics record has sent its last message
Answered == pc = "replied" /\ result # Null /\ result # Raised

Working == [writes |-> "work"]

\* C22: whether the store is unconfigured, raises on the write or works, the
\* command replies with the same text as when the write succeeds, and it
\* replies 'Analysis failed' only if formatting the text raised
C22_SinkFailureHidden ==
  Answered =>
    \E ton_price \in TonPrices :
      /\ reply = analysis_reply(result, eligibility, recommendation, ton_price, now, Working)
      /\ reply = AnalysisFailed =>
           format_enhanced_analysis_response(result, eligibility, recommendation,
                                             ton_price, now) = Raised

\* an analysis was sent although the store is unconfigured
C22_WitnessUnconfigured ==
  /\ Answered
  /\ db = Null
  /\ reply.text = "Enhanced CPM Analysis"
  /\ Len(saved) = 1

\* an analysis was sent although the write raised
C22_Witness ==
  /\ Answered
  /\ db = [writes |-> "raise"]
  /\ reply.text = "Enhanced CPM Analysis"
  /\ Len(saved) = 1

\* C23: the username of every record analyze_channel returns is lower-case
\* and has no leading '@', whatever the caller passed or the provider sent
C23_UsernameNormalized ==
  Returned =>
    /\ result.username = Lower(result.username)
    /\ result.username = LStrip(result.username, "@")

\* the cached row get_stats loaded is within the freshness window
WithinWindow == harv_in.cached # Null /\ now - harv_in.cached["updated"] <= 6 * 3600

\* C24: a cached row within the 6-hour window is used without a live refresh
\* attempt; an older row, or no row, triggers exactly one attempt; when the
\* attempt yields a record, that record's data is used in place of the cached
C24_RefreshPolicy ==
  harv_in # Null =>
    /\ WithinWindow =>
         /\ harv_in.attempts = 0
         /\ harv # Null
         /\ \A c \in AnalyticsColumns : harv[c] = harv_in.cached[c]
    /\ ~WithinWindow => harv_in.attempts = 1
    /\ (~WithinWindow /\ harv_in.refresh \notin {Raised, Null}) =>
         /\ harv # Null
         /\ \A c \in AnalyticsColumns : harv[c] = harv_in.refresh[c]

\* C24 witness: a row one second past the window was replaced by live data
C24_Witness ==
  /\ Blended
  /\ harv_in.cached # Null
  /\ now - harv_in.cached["updated"] = 6 * 3600 + 1
  /\ harv_in.attempts = 1
  /\ harv_in.refresh \notin {Raised, Null}
  /\ harv["updated"] = now

\* a row exactly six hours old was used without a refresh attempt
C24_WitnessFresh ==
  /\ Blended
  /\ harv_in.cached # Null
  /\ now - harv_in.cached["updated"] = 6 * 3600
  /\ harv_in.attempts = 0
  /\ harv["updated"] = harv_in.cached["updated"]

----------------------------------------------------------------------------
(* Properties of the reasoning and of the interaction multiplier *)

\* the place of an entry of the reasoning in the fixed order of the factors:
\* base, engagement, niche, activity, interaction, quality, verification
FactorOf(entry) ==
  CASE entry = "Base" -> 1
    [] entry \in {"High engagement", "Low engagement"} -> 2
    [] entry \in {"niche premium", "niche discount"} -> 3
    [] entry = "High activity" -> 4
    [] entry = "Good interaction metrics" -> 5
    [] entry \in {"High content quality", "Content quality concerns"} -> 6
    [] entry = "Verified channel (+10%)" -> 7

\* the factors whose multiplier in calculate_cpm is not 1.0, and the base
NonNeutral(metrics) ==
  {1}
  \cup (IF get_engagement_multiplier(metrics.engagement_rate) # 100 THEN {2} ELSE {})
  \cup (IF niche_multiplier(metrics.niche) # 10 THEN {3} ELSE {})
  \cup (IF get_frequency_multiplier(metrics.posts_per_day) # 100 THEN {4} ELSE {})
  \cup (IF get_interaction_multiplier(metrics) # 100 THEN {5} ELSE {})
  \cup (IF 200 + metrics.content_quality_score # 250 THEN {6} ELSE {})
  \cup (IF metrics.is_verified THEN {7} ELSE {})

\* C25: the reasoning lists its entries in the fixed order of the factors,
\* and a factor has an entry iff its multiplier differs from 1.0 (the base
\* always has one)
C25_ReasoningListsNonNeutral ==
  pc = "priced" =>
    LET r == recommendation.reasoning IN
    /\ \A i, j \in 1..Len(r) : i < j => FactorOf(r[i]) < FactorOf(r[j])
    /\ { FactorOf(r[i]) : i \in 1..Len(r) } = NonNeutral(result)

\* what holds of the code: the entries are in the fixed order, the base always
\* has one, and the engagement, niche and verification entries appear iff
\* their multipliers differ from 1.0
C25_OrderedEntries ==
  pc = "priced" =>
    LET r == recommendation.reasoning
        listed == { FactorOf(r[i]) : i \in 1..Len(r) }
    IN  /\ \A i, j \in 1..Len(r) : i < j => FactorOf(r[i]) < FactorOf(r[j])
        /\ listed \cap {1, 2, 3, 7} = NonNeutral(result) \cap {1, 2, 3, 7}

\* (reactions + forwards) / (avg_views * 100) > k, for avg_views # 0
RateAbove(metrics, k) ==
  LET total == metrics.total_reactions + metrics.total_forwards
      den == metrics.avg_views * 100
  IN  IF den > 0 THEN total > k * den ELSE total < k * den

\* (reactions + forwards) / (avg_views * 100) < k, for avg_views # 0
RateBelow(metrics, k) ==
  LET total == metrics.total_reactions + metrics.total_forwards
      den == metrics.avg_views * 100
  IN  IF den > 0 THEN total < k * den ELSE total > k * den

\* C26: the interaction multiplier is 1.0 when reactions and forwards are both
\* zero; otherwise 1.2 for rate > 10, 1.1 for rate > 5, 0.95 for rate < 1 and
\* 1.0 in the remaining cases (rate from 1 to 5, or avg_views = 0); it is
\* always one of 0.95, 1.0, 1.1, 1.2
C26_InteractionMultiplier ==
  pc = "priced" =>
    LET m == result
        mult == get_interaction_multiplier(m)
    IN  /\ mult \in {95, 100, 110, 120}
        /\ mult = IF m.total_reactions = 0 /\ m.total_forwards = 0 THEN 100
                  ELSE IF m.avg_views = 0 THEN 100
                  ELSE IF RateAbove(m, 10) THEN 120
                  ELSE IF RateAbove(m, 5) THEN 110
                  ELSE IF RateBelow(m, 1) THEN 95
                  ELSE 100

----------------------------------------------------------------------------
(* Two Telemetr.io payloads normalized side by side *)

\* one channel under the spellings _process_telemetrio_data accepts: each
\* field under its first or its second name
TelemetrioSpellings ==
  { Update(Update(Update(Update([title |-> <<"f","u","n">>, subscribers |-> Num(1000)],
      IF views THEN [avg_views |-> Num(400)] ELSE [avgViews |-> Num(400)]),
      IF verified THEN [verified |-> TRUE] ELSE [is_verified |-> TRUE]),
      IF posts THEN [posts_last_week |-> 7] ELSE [recent_posts |-> 7]),
      IF description THEN [description |-> Chars(51, "x")] ELSE [about |-> Chars(51, "x")]) :
      views \in BOOLEAN, verified \in BOOLEAN, posts \in BOOLEAN, description \in BOOLEAN }

InitPairs ==
  /\ cfg = [api_key |-> TRUE, harvester |-> FALSE, bot_token |-> FALSE]
  /\ now = Clock0
  /\ request = <<"c","h">>
  /\ username = <<"c","h">>
  /\ calls = <<>>
  /\ telemetrio_data = Null
  /\ harv_in = Null
  /\ harv = Null
  /\ tgstat_data = Null
  /\ base = Null
  /\ result = Null
  /\ min_cpm = Cents(MIN_CPM_TON)
  /\ eligibility = Null
  /\ recommendation = Null
  /\ pc = "pair"
  /\ arg \in [first : TelemetrioSpellings, second : TelemetrioSpellings]
  /\ out = [first |-> Null, second |-> Null]
  /\ Quiet
  /\ db = Null

\* _process_telemetrio_data on the first payload
NormalizeFirst ==
  /\ pc = "pair"
  /\ out.first = Null
  /\ out' = [out EXCEPT !.first = process_telemetrio_data(username, arg.first, now)]
  /\ UNCHANGED <<pc, Caller>>

\* _process_telemetrio_data on the second payload
NormalizeSecond ==
  /\ pc = "pair"
  /\ out.second = Null
  /\ out' = [out EXCEPT !.second = process_telemetrio_data(username, arg.second, now)]
  /\ UNCHANGED <<pc, Caller>>

NextPairs == NormalizeFirst \/ NormalizeSecond

\* every pair of spellings normalized
SpecPairs == InitPairs /\ [][NextPairs]_vars

\* the fields the normalizer extracted, the derived niche and score left out
Extracted(metrics) ==
  <<metrics.subscribers, metrics.avg_views, metrics.engagement_rate, metrics.is_verified,
    metrics.description, metrics.recent_posts, metrics.posts_per_day,
    metrics.total_forwards, metrics.total_reactions, metrics.media_ratio>>

\* C27: two payloads that normalize to records with the same extracted fields
\* get the same content-quality score, whatever spelling each payload used
C27_ScoreFromExtractedFields ==
  (/\ pc = "pair"
   /\ out.first # Null /\ out.second # Null
   /\ Extracted(out.first) = Extracted(out.second))
    => out.first.content_quality_score = out.second.content_quality_score

----------------------------------------------------------------------------
(* Properties of the /analyze command *)

\* C28: a command whose analyze_channel returned a metrics record, eligible
\* or not, ends with eligibility and pricing computed, one audit record handed
\* to the store and the formatted analysis sent, never with 'Analysis failed'
C28_PipelineCompletes ==
  Answered =>
    /\ eligibility # Null
    /\ recommendation # Null
    /\ Len(saved) = 1
    /\ reply # AnalysisFailed
    /\ reply.text = "Enhanced CPM Analysis"

\* what holds of the code: the command of a channel that is not eligible
\* completes the pipeline
C28_IneligibleCompletes ==
  (Answered /\ ~eligibility.eligible) =>
    /\ recommendation # Null
    /\ Len(saved) = 1
    /\ reply.text = "Enhanced CPM Analysis"

\* thread t has been through the rate-limit check
Decided(t) == commands[t].pc \in {"rejected", "passed", "analysis"}

\* the requester's recorded request was less than 60 seconds before the
\* command read the clock
Within60(t) ==
  /\ commands[t].recorded
  /\ commands[t].now - commands[t].seen >= 0
  /\ commands[t].now - commands[t].seen < 60

\* C29: a command is rejected iff the same requester's recorded request was
\* less than 60 seconds earlier; a command 60 seconds or more later, a day
\* later included, is never rejected
C29_RejectsWithin60 ==
  \A t \in 1..Len(commands) :
    Decided(t) => (commands[t].pc = "rejected" <=> Within60(t))

\* C29, the rest: a rejected command leaves the recorded timestamps unchanged,
\* and a command changes no timestamp but its own requester's
C29_RejectionLeavesMap ==
  [][\A t \in 1..Len(commands) :
       /\ (commands[t].pc = "clock_read" /\ commands'[t].pc = "rejected")
            => last_requests' = last_requests
       /\ (commands[t].pc = "passed" /\ commands'[t].pc = "analysis")
            => \A u \in DOMAIN last_requests :
                 u # commands[t].user_id => last_requests'[u] = last_requests[u]]_vars

----------------------------------------------------------------------------
(* Properties of the returned record's niche *)

\* the result of the classifier the record's normalizer calls
ClassifierOf(record) ==
  IF Called("tgstat")
  THEN classify_niche_tgstat(record.title, record.description)
  ELSE classify_niche(record.title, record.description)

\* C30: the niche of every record analyze_channel returns, a record whose
\* description was patched from the harvester included, is the classifier's
\* result on the record's final title and description
C30_NicheOfFinalText ==
  Returned => result.niche = classify_niche(result.title, result.description)

\* the same with each provider's own classifier: refuted by the patch alone
C30_NicheOfFinalTextPerProvider ==
  Returned => result.niche = ClassifierOf(result)

\* what holds of the code: the niche is the classifier's result on the title
\* and description the normalizer saw, before any patch
C30_NicheOfNormalizedText ==
  Returned =>
    IF Called("harvester_supplement")
    THEN result.niche = classify_niche(base.title, base.description)
    ELSE result.niche = ClassifierOf(result)


====
